---- MODULE Spec2Model ----
(***************************************************************************)
(* The download scheduler of the BitTorrent client                         *)
(* (src/src/downloader.rs): TorrentDownloader::download, the tracker       *)
(* poller that feeds it, and the peer tasks of its JoinSet; and one peer   *)
(* session byte by byte (src/src/peer.rs, src/src/peer/message.rs).        *)
(*                                                                         *)
(* In the scheduler:                                                       *)
(* A peer address is a number, a piece descriptor is its piece index (the  *)
(* length and the hash of a descriptor are functions of the index).  Time  *)
(* is counted in whole seconds: an entry of the active set carries its age *)
(* (now - started_at), which stops counting at PIECE_DOWNLOAD_TIMEOUT, the *)
(* only value it is ever compared with.                                    *)
(***************************************************************************)
EXTENDS Integers, Sequences, FiniteSets, TLC

\* Program constants (src/src/downloader.rs:22, :23).
MAX_CONCURRENT_DOWNLOADS == 20
PIECE_DOWNLOAD_TIMEOUT == 5

\* src/src/peer.rs:16.
PIECE_BLOCK_SIZE == 16384

\* Bounds of the model: the pieces of a torrent, the peer addresses, the
\* length of a tracker's list, the length of the queue, the tasks of the
\* JoinSet, the responses of the tracker, and torrent.info.piece_length.
MaxPieces == 2
MaxAddrs == 2
MaxPeerList == 2
MaxQueue == 2
MaxTasks == 2
MaxPolls == 2
PieceLength == 4
MaxPieceLen == 2
MaxParseLen == 2
MaxBlocks == 2
MaxTorrentLength == 8
MaxBencodeLen == 4
MaxPeersLen == 12
MaxInterval == 2

VARIABLES
    num_pieces,        \* torrent.info.pieces.len()
    piece_queue,       \* self.piece_queue: VecDeque<PieceDescriptor>
    tracker_rx,        \* the watch channel: << >> is None, <<l>> is Some(l)
    active_peers,      \* HashMap<SocketAddrV4, PieceDownloadPending>
    new_active_peers,  \* the map built by the dispatch loop
    new_peers,         \* what is left of the iterator fetch_new_peers returned
    handles,           \* the JoinSet: task id -> the task
    ready,             \* finished tasks not yet joined, in completion order
    pc,                \* where download() is
    polls,             \* the responses the tracker has answered so far
    completed,         \* the pieces a drained Success result delivered (history)
    output,            \* the output file: the set of [offset, index] written
    session,           \* where one peer session (handshake, download_piece) is
    descriptor,        \* the PieceDescriptor the session downloads
    wire,              \* what the session wrote to and read from the stream
    piece_buffer,      \* download_piece's buf: the bytes of the piece
    call,              \* a function of the program and its argument
    result             \* what the call has returned so far

downloader_vars ==
    <<num_pieces, piece_queue, tracker_rx, active_peers, new_active_peers,
      new_peers, handles, ready, pc, polls, completed, output>>

peer_vars == <<session, descriptor, wire, piece_buffer>>

call_vars == <<call, result>>

vars == <<downloader_vars, peer_vars, call_vars>>

\* No peer session is looked at; no function is being called.
NoSession ==
    /\ session = "none"
    /\ descriptor = << >>
    /\ wire = << >>
    /\ piece_buffer = << >>

NoCall ==
    /\ call = << >>
    /\ result = << >>

----------------------------------------------------------------------------
\* Helpers: finite maps and sequences.

Range(s) == {s[i] : i \in DOMAIN s}

EmptyMap == [k \in {} |-> 0]

Put(m, k, v) == [x \in DOMAIN m \cup {k} |-> IF x = k THEN v ELSE m[x]]

Remove(m, k) == [x \in DOMAIN m \ {k} |-> m[x]]

\* HashMap::extend: the entries of n replace those of m.
Extend(m, n) == [x \in DOMAIN m \cup DOMAIN n |-> IF x \in DOMAIN n THEN n[x] ELSE m[x]]

\* Every order in which the elements of S can be visited.
Orders(S) == {s \in [1..Cardinality(S) -> S] : Range(s) = S}

SeqsUpTo(S, n) == UNION {[1..k -> S] : k \in 0..n}

Min(a, b) == IF a < b THEN a ELSE b

Addrs == 1..MaxAddrs

\* The peer lists a tracker response can carry (an address may repeat).
PeerLists == SeqsUpTo(Addrs, MaxPeerList)

----------------------------------------------------------------------------
\* generate_piece_queue: one descriptor per piece hash, shuffled.
generate_piece_queue(n) == Orders(0..(n - 1))

Init ==
    /\ num_pieces \in 1..MaxPieces
    /\ piece_queue \in generate_piece_queue(num_pieces)
    /\ polls = 0
    /\ completed = {}
    /\ tracker_rx = << >>
    /\ active_peers = EmptyMap
    /\ new_active_peers = EmptyMap
    /\ new_peers = << >>
    /\ handles = EmptyMap
    /\ ready = << >>
    /\ pc = "fetch"
    /\ output = {}
    /\ NoSession
    /\ NoCall

\* The scheduler observes a task only through try_join_next and abort(), and
\* the watch channel only through borrow_and_update(): a task that ends, or a
\* list that is published, at any other moment of an iteration is observed
\* exactly as if it had happened just before the next of these points.  The
\* task steps are therefore taken where the draining loop is about to start
\* (pc = "join"), and the tracker steps where the list is about to be read.
\* Tasks may also end between the draining loop and the abort() calls of
\* check_piece_download_timeout (EndsBeforeAbort).
AtJoinPoint == pc = "join"

AtFetchPoint == pc = "fetch"

----------------------------------------------------------------------------
\* The peer task (spawn_piece_download_task and the session it drives).

\* What a peer can do to a session.
PeerBehaviours ==
    {"ok", "refuse_connection", "wrong_info_hash", "unhandled_message_id",
     "empty_frame", "wrong_block_length", "wrong_hash"}

\* How the task of a session ends, for each peer behaviour:
\*   handshake(): a failed connect or a different info-hash is an Err, and the
\*     task returns PieceDownloadResult::Error;
\*   PeerMessage::parse: an id outside {1,2,5,6,7} is an Err ("unhandled message
\*     id"); an empty payload (a frame of length 0) panics in input.get_u8();
\*   download_piece: buf[begin..begin+req.length].copy_from_slice(&block) panics
\*     when block.len() differs from the requested length; a wrong SHA-1 is an Err.
\* A panic ends the task with a JoinError, not with a PieceDownloadResult.
SessionOutcome(b) ==
    CASE b = "ok" -> "success"
      [] b = "refuse_connection" -> "error"
      [] b = "wrong_info_hash" -> "error"
      [] b = "unhandled_message_id" -> "error"
      [] b = "wrong_hash" -> "error"
      [] b = "empty_frame" -> "panicked"
      [] b = "wrong_block_length" -> "panicked"

\* The id of a new task: the least one no task of the JoinSet has.
UsedTasks == DOMAIN handles

FreshTask == CHOOSE t \in 1..(Cardinality(UsedTasks) + 1) :
                 /\ t \notin UsedTasks
                 /\ \A u \in 1..(t - 1) : u \in UsedTasks

\* TimedOut with the comparison off by one: an entry is skipped until its age
\* is above the timeout.
TimedOut_Above(pending) == pending.age > PIECE_DOWNLOAD_TIMEOUT

\* Line 154: an entry is skipped while its age is below the timeout.
TimedOut(pending) == pending.age >= PIECE_DOWNLOAD_TIMEOUT

\* The entries check_piece_download_timeout acts on.
TimedOutPeers == {a \in DOMAIN active_peers : TimedOut(active_peers[a])}

\* Between the draining loop and the abort() calls of
\* check_piece_download_timeout any running task may end, as long as a task
\* that is about to be aborted is still running: the order in which the two
\* end is the order in which try_join_next returns them.
EndsBeforeAbort(t) ==
    /\ pc = "timeout"
    /\ \E a \in TimedOutPeers :
          /\ active_peers[a].task \in DOMAIN handles
          /\ handles[active_peers[a].task].state = "running"
          /\ ~handles[active_peers[a].task].aborted

\* The task of session t ends under peer behaviour b; the JoinSet is notified.
\* A task that ends in the poll during which abort() is called is a task that
\* ended just before abort(); after abort() a running task can only be
\* cancelled.
TaskFinish(t, b) ==
    /\ t \in DOMAIN handles
    /\ (AtJoinPoint \/ EndsBeforeAbort(t))
    /\ handles[t].state = "running"
    /\ ~handles[t].aborted
    /\ handles' = [handles EXCEPT ![t].state = SessionOutcome(b)]
    /\ ready' = Append(ready, t)
    /\ UNCHANGED <<peer_vars, call_vars>>
    /\ UNCHANGED <<num_pieces, piece_queue, tracker_rx, active_peers, new_active_peers,
                   new_peers, pc, polls, completed, output>>

\* AbortHandle::abort() took effect on a task that had not finished: the task
\* ends with JoinError::Cancelled.
TaskCancel(t) ==
    /\ AtJoinPoint
    /\ t \in DOMAIN handles
    /\ handles[t].state = "running"
    /\ handles[t].aborted
    /\ handles' = [handles EXCEPT ![t].state = "cancelled"]
    /\ ready' = Append(ready, t)
    /\ UNCHANGED <<peer_vars, call_vars>>
    /\ UNCHANGED <<num_pieces, piece_queue, tracker_rx, active_peers, new_active_peers,
                   new_peers, pc, polls, completed, output>>

----------------------------------------------------------------------------
\* spawn_tracker_poller: a successful poll publishes the peer list.
TrackerPoll(peers) ==
    /\ AtFetchPoint
    /\ polls < MaxPolls
    /\ polls' = polls + 1
    /\ tracker_rx' = <<peers>>
    /\ UNCHANGED <<peer_vars, call_vars>>
    /\ UNCHANGED <<num_pieces, piece_queue, active_peers, new_active_peers, new_peers,
                   handles, ready, pc, completed, output>>

----------------------------------------------------------------------------
\* TorrentDownloader::download, the main loop.

\* fetch_new_peers: the published peers that are not in the active set.
fetch_new_peers(usable_peers) ==
    SelectSeq(usable_peers, LAMBDA p : p \notin DOMAIN active_peers)

\* Lines 200-205: no list published yet: sleep and continue; otherwise start
\* the dispatch loop with an empty new_active_peers.
FetchNewPeers ==
    /\ pc = "fetch"
    /\ IF tracker_rx = << >>
       THEN UNCHANGED <<new_peers, new_active_peers, pc>>
       ELSE /\ new_peers' = fetch_new_peers(tracker_rx[1])
            /\ new_active_peers' = EmptyMap
            /\ pc' = "dispatch"
    /\ UNCHANGED <<peer_vars, call_vars>>
    /\ UNCHANGED <<num_pieces, piece_queue, tracker_rx, active_peers, handles, ready,
                   polls, completed, output>>

\* Line 208: the cap test of the dispatch loop.
CapReached ==
    Cardinality(DOMAIN active_peers) + Cardinality(DOMAIN new_active_peers)
        >= MAX_CONCURRENT_DOWNLOADS

\* Lines 207-211, 238: the loop ends (no peer left, or the cap is reached) and
\* active_peers.extend(new_active_peers).
DispatchEnd ==
    /\ pc = "dispatch"
    /\ IF new_peers = << >> THEN TRUE ELSE CapReached
    /\ active_peers' = Extend(active_peers, new_active_peers)
    /\ new_active_peers' = EmptyMap
    /\ new_peers' = << >>
    /\ pc' = "join"
    /\ UNCHANGED <<peer_vars, call_vars>>
    /\ UNCHANGED <<num_pieces, piece_queue, tracker_rx, handles, ready, polls, completed, output>>

\* Lines 213-216: a peer is left, the cap is not reached and the queue is
\* empty: break 'main.
DispatchQueueEmpty ==
    /\ pc = "dispatch"
    /\ new_peers # << >>
    /\ ~CapReached
    /\ piece_queue = << >>
    /\ pc' = "done"
    /\ UNCHANGED <<peer_vars, call_vars>>
    /\ UNCHANGED <<num_pieces, piece_queue, tracker_rx, active_peers, new_active_peers,
                   new_peers, handles, ready, polls, completed, output>>

\* Lines 213-235: pop a descriptor, spawn the task of the next peer, and insert
\* its entry in new_active_peers (a HashMap: an entry of the same address is
\* replaced).
DispatchSpawn(maxTasks) ==
    /\ pc = "dispatch"
    /\ new_peers # << >>
    /\ ~CapReached
    /\ piece_queue # << >>
    /\ Cardinality(DOMAIN handles) < maxTasks
    /\ LET peer == Head(new_peers)
           piece_des == Head(piece_queue)
           t == FreshTask
       IN /\ piece_queue' = Tail(piece_queue)
          /\ handles' = Put(handles, t, [peer |-> peer, piece |-> piece_des,
                                         state |-> "running", aborted |-> FALSE])
          /\ new_active_peers' = Put(new_active_peers, peer,
                                     [age |-> 0, task |-> t, piece |-> piece_des])
          /\ new_peers' = Tail(new_peers)
    /\ UNCHANGED <<peer_vars, call_vars>>
    /\ UNCHANGED <<num_pieces, tracker_rx, active_peers, ready, pc, polls, completed, output>>

\* A task that try_join_next returned has left the JoinSet: an AbortHandle that
\* names it is inert from then on (task 0 is no task).
Joined(pending_map, t) ==
    [a \in DOMAIN pending_map |->
        IF pending_map[a].task = t THEN [pending_map[a] EXCEPT !.task = 0]
        ELSE pending_map[a]]

\* VecDeque::push_back (lines 160, 253): a re-queued descriptor goes to the tail.
push_back(queue, piece_des) == Append(queue, piece_des)

\* Line 241: the draining loop starts.
DrainStart ==
    /\ pc = "join"
    /\ pc' = "drain"
    /\ UNCHANGED <<peer_vars, call_vars>>
    /\ UNCHANGED <<num_pieces, piece_queue, tracker_rx, active_peers, new_active_peers,
                   new_peers, handles, ready, polls, completed, output>>

\* Lines 241-247: try_join_next yields Ok(Success): the peer's entry is removed
\* from the active set; assert! panics when there is none.  The piece is not
\* saved ("TODO: Save piece to file."): the output is left as it is.
DrainSuccess ==
    /\ pc = "drain"
    /\ ready # << >>
    /\ handles[Head(ready)].state = "success"
    /\ LET task == handles[Head(ready)]
       IN /\ handles' = Remove(handles, Head(ready))
          /\ ready' = Tail(ready)
          /\ completed' = completed \cup {task.piece}
          /\ IF task.peer \in DOMAIN active_peers
             THEN /\ active_peers' = Joined(Remove(active_peers, task.peer), Head(ready))
                  /\ pc' = "drain"
             ELSE /\ active_peers' = Joined(active_peers, Head(ready))
                  /\ pc' = "panicked"
    /\ UNCHANGED <<peer_vars, call_vars>>
    /\ UNCHANGED <<num_pieces, piece_queue, tracker_rx, new_active_peers, new_peers, polls,
                   output>>

\* Lines 248-254: try_join_next yields Ok(Error): the peer's entry is removed
\* (assert! panics when there is none) and the descriptor is pushed back.
DrainError ==
    /\ pc = "drain"
    /\ ready # << >>
    /\ handles[Head(ready)].state = "error"
    /\ Len(piece_queue) < MaxQueue
    /\ LET task == handles[Head(ready)]
       IN /\ handles' = Remove(handles, Head(ready))
          /\ ready' = Tail(ready)
          /\ IF task.peer \in DOMAIN active_peers
             THEN /\ active_peers' = Joined(Remove(active_peers, task.peer), Head(ready))
                  /\ piece_queue' = push_back(piece_queue, task.piece)
                  /\ pc' = "drain"
             ELSE /\ active_peers' = Joined(active_peers, Head(ready))
                  /\ piece_queue' = piece_queue
                  /\ pc' = "panicked"
    /\ UNCHANGED <<peer_vars, call_vars>>
    /\ UNCHANGED <<num_pieces, tracker_rx, new_active_peers, new_peers, polls, completed, output>>

\* DrainJoinError handling a JoinError as a Failure of the session: the peer
\* is removed and the descriptor pushed back.
DrainJoinError_AsFailure ==
    /\ pc = "drain"
    /\ ready # << >>
    /\ handles[Head(ready)].state \in {"cancelled", "panicked"}
    /\ handles' = Remove(handles, Head(ready))
    /\ ready' = Tail(ready)
    /\ active_peers' = Joined(Remove(active_peers, handles[Head(ready)].peer), Head(ready))
    /\ piece_queue' = push_back(piece_queue, handles[Head(ready)].piece)
    /\ pc' = "drain"
    /\ UNCHANGED <<peer_vars, call_vars>>
    /\ UNCHANGED <<num_pieces, tracker_rx, new_active_peers, new_peers, polls,
                   completed, output>>

\* Line 241: try_join_next yields Some(Err(JoinError)) for a task that was
\* cancelled or that panicked: the task leaves the JoinSet and `while let
\* Some(Ok(res))` ends, whatever else is ready.
DrainJoinError ==
    /\ pc = "drain"
    /\ ready # << >>
    /\ handles[Head(ready)].state \in {"cancelled", "panicked"}
    /\ handles' = Remove(handles, Head(ready))
    /\ ready' = Tail(ready)
    /\ active_peers' = Joined(active_peers, Head(ready))
    /\ pc' = "timeout"
    /\ UNCHANGED <<peer_vars, call_vars>>
    /\ UNCHANGED <<num_pieces, piece_queue, tracker_rx, new_active_peers, new_peers,
                   polls, completed, output>>

\* Line 241: try_join_next yields None: no task is ready.
DrainNone ==
    /\ pc = "drain"
    /\ ready = << >>
    /\ pc' = "timeout"
    /\ UNCHANGED <<peer_vars, call_vars>>
    /\ UNCHANGED <<num_pieces, piece_queue, tracker_rx, active_peers, new_active_peers,
                   new_peers, handles, ready, polls, completed, output>>

\* Line 159: abort_handle.abort() on every task in `tasks`: a task that has not
\* finished is asked to stop, a finished one keeps its result.
abort(tasks) ==
    [t \in DOMAIN handles |->
        IF t \in tasks THEN [handles[t] EXCEPT !.aborted = TRUE] ELSE handles[t]]

\* check_piece_download_timeout (lines 143-162, called at line 258): every
\* timed-out entry, in the order the HashMap yields them: abort the task and
\* push its descriptor back.  The entry stays in the active set.
CheckTimeout ==
    /\ pc = "timeout"
    /\ Len(piece_queue) + Cardinality(TimedOutPeers) <= MaxQueue
    /\ \E order \in Orders(TimedOutPeers) :
          piece_queue' = piece_queue \o [i \in DOMAIN order |-> active_peers[order[i]].piece]
    /\ handles' = abort({active_peers[a].task : a \in TimedOutPeers})
    /\ pc' = "end"
    /\ UNCHANGED <<peer_vars, call_vars>>
    /\ UNCHANGED <<num_pieces, tracker_rx, active_peers, new_active_peers, new_peers, ready,
                   polls, completed, output>>

\* Lines 260-262: nothing active and nothing queued: break.
LoopBreak ==
    /\ pc = "end"
    /\ active_peers = EmptyMap
    /\ piece_queue = << >>
    /\ pc' = "done"
    /\ UNCHANGED <<peer_vars, call_vars>>
    /\ UNCHANGED <<num_pieces, piece_queue, tracker_rx, active_peers, new_active_peers,
                   new_peers, handles, ready, polls, completed, output>>

\* Line 264: sleep 300 ms; d whole seconds are added to the age of the entries.
Sleep(d) ==
    /\ pc = "end"
    /\ ~(active_peers = EmptyMap /\ piece_queue = << >>)
    /\ active_peers' =
          [a \in DOMAIN active_peers |->
              [active_peers[a] EXCEPT !.age = Min(@ + d, PIECE_DOWNLOAD_TIMEOUT)]]
    /\ pc' = "fetch"
    /\ UNCHANGED <<peer_vars, call_vars>>
    /\ UNCHANGED <<num_pieces, piece_queue, tracker_rx, new_active_peers, new_peers, handles,
                   ready, polls, completed, output>>

----------------------------------------------------------------------------
\* One step of download(); `delays` are the whole seconds a sleep may add.
Scheduler(maxTasks, delays) ==
    \/ FetchNewPeers
    \/ DispatchSpawn(maxTasks)
    \/ DispatchQueueEmpty
    \/ DispatchEnd
    \/ DrainStart
    \/ DrainSuccess
    \/ DrainError
    \/ DrainJoinError
    \/ DrainNone
    \/ CheckTimeout
    \/ LoopBreak
    \/ \E d \in delays : Sleep(d)

Next ==
    \/ Scheduler(MaxTasks, 0..1)
    \/ \E peers \in PeerLists : TrackerPoll(peers)
    \/ \E t \in DOMAIN handles, b \in PeerBehaviours : TaskFinish(t, b)
    \/ \E t \in DOMAIN handles : TaskCancel(t)

\* The scheduler, the tracker poller and the peer tasks, against peers that
\* may do anything of PeerBehaviours.
Spec == Init /\ [][Next]_vars

\* The same against a cohort of peers with which every handshake and every
\* piece download succeeds, and well within the timeout: no task ends with
\* an Error or a JoinError, so these two arms of the draining loop are never
\* entered.
NextAllSucceed ==
    \/ FetchNewPeers
    \/ DispatchSpawn(MaxTasks)
    \/ DispatchQueueEmpty
    \/ DispatchEnd
    \/ DrainStart
    \/ DrainSuccess
    \/ DrainNone
    \/ CheckTimeout
    \/ LoopBreak
    \/ Sleep(0)
    \/ \E peers \in PeerLists : TrackerPoll(peers)
    \/ \E t \in DOMAIN handles : TaskFinish(t, "ok")

SpecAllSucceed == Init /\ [][NextAllSucceed]_vars

----------------------------------------------------------------------------
\* A torrent of more pieces than MAX_CONCURRENT_DOWNLOADS, a tracker whose
\* list is longer than the cap, and peers that accept the connection and
\* never answer: the tasks stay running.

CapPieces == MAX_CONCURRENT_DOWNLOADS + 1

CapLists ==
    { [i \in 1..CapPieces |-> 1],
      [i \in 1..(CapPieces + 1) |-> 1],
      [i \in 1..CapPieces |-> i] }

InitCap ==
    /\ num_pieces = CapPieces
    /\ piece_queue = [i \in 1..CapPieces |-> i - 1]
    /\ tracker_rx = << >>
    /\ active_peers = EmptyMap
    /\ new_active_peers = EmptyMap
    /\ new_peers = << >>
    /\ handles = EmptyMap
    /\ ready = << >>
    /\ pc = "fetch"
    /\ polls = 0
    /\ completed = {}
    /\ output = {}
    /\ NoSession
    /\ NoCall

NextCap ==
    \/ FetchNewPeers
    \/ DispatchSpawn(CapPieces + 1)
    \/ DispatchQueueEmpty
    \/ DispatchEnd
    \/ DrainStart
    \/ DrainNone
    \/ CheckTimeout
    \/ \E d \in 0..1 : Sleep(d)
    \/ \E peers \in CapLists : TrackerPoll(peers)

SpecCap == InitCap /\ [][NextCap]_vars

----------------------------------------------------------------------------
\* The peer wire protocol (src/src/peer/message.rs).  Bytes are 0..255, a
\* Bytes value is a sequence of them, a u32 is written big-endian.  A call
\* returns Ok(v), Err(reason), or Panic when the code
\* panics (bytes::Buf panics when it is asked for more than remains).

Ok(v) == [tag |-> "Ok", val |-> v]

Err(reason) == [tag |-> "Err", val |-> reason]

Panic == [tag |-> "Panic", val |-> "panicked"]

\* BufMut::put_u32.
put_u32(n) ==
    <<(n \div 16777216) % 256, (n \div 65536) % 256, (n \div 256) % 256, n % 256>>

\* Buf::get_u32 on the first four bytes of input (the caller has checked that
\* they remain).
get_u32(input) ==
    input[1] * 16777216 + input[2] * 65536 + input[3] * 256 + input[4]

\* input after Buf::advance(n).
advance(input, n) == SubSeq(input, n + 1, Len(input))

\* The messages: Unchoke, Interested, Bitfield, Request and Piece.
Unchoke == [msg |-> "Unchoke"]

Interested == [msg |-> "Interested"]

Bitfield == [msg |-> "Bitfield"]

Request(index, begin, length) ==
    [msg |-> "Request", index |-> index, begin |-> begin, length |-> length]

Piece(index, begin, block) ==
    [msg |-> "Piece", index |-> index, begin |-> begin, block |-> block]

\* parse_empty: an Err when bytes remain.
parse_empty(input, message) ==
    IF Len(input) > 0 THEN Err("bytes remaining when parsing empty remainder")
    ELSE Ok(message)

\* parse_ingore_payload: consumes what remains.
parse_ingore_payload(input, message) == Ok(message)

\* parse_request_payload: three get_u32, each panics when fewer than four
\* bytes remain; an Err when bytes remain after them.
parse_request_payload(input) ==
    IF Len(input) < 12 THEN Panic
    ELSE IF Len(input) > 12 THEN Err("bytes remaining when parsing request payload")
    ELSE Ok(Request(get_u32(input), get_u32(advance(input, 4)),
                    get_u32(advance(input, 8))))

\* parse_piece_payload: two get_u32; the block is what remains.
parse_piece_payload(input) ==
    IF Len(input) < 8 THEN Panic
    ELSE Ok(Piece(get_u32(input), get_u32(advance(input, 4)), advance(input, 8)))

\* PeerMessage::parse: get_u8 (a panic on an empty input), then the payload
\* of the message the id names; any other id is an Err.
PeerMessage_parse(input) ==
    IF Len(input) = 0 THEN Panic
    ELSE LET message_id == input[1]
             rest == advance(input, 1)
         IN CASE message_id = 1 -> parse_empty(rest, Unchoke)
              [] message_id = 2 -> parse_empty(rest, Interested)
              [] message_id = 5 -> parse_ingore_payload(rest, Bitfield)
              [] message_id = 6 -> parse_request_payload(rest)
              [] message_id = 7 -> parse_piece_payload(rest)
              [] OTHER -> Err("unhandled message id")

\* PeerMessage::into_bytes: the id and the fields; no length is put in front.
\* Bitfield is unimplemented!().
PeerMessage_into_bytes(message) ==
    CASE message.msg = "Unchoke" -> Ok(<<1>>)
      [] message.msg = "Interested" -> Ok(<<2>>)
      [] message.msg = "Request" ->
            Ok(<<6>> \o put_u32(message.index) \o put_u32(message.begin)
                     \o put_u32(message.length))
      [] message.msg = "Piece" ->
            Ok(<<7>> \o put_u32(message.index) \o put_u32(message.begin)
                     \o message.block)
      [] message.msg = "Bitfield" -> Panic

\* b"BitTorrent protocol".
ProtocolString ==
    <<66, 105, 116, 84, 111, 114, 114, 101, 110, 116, 32,
      112, 114, 111, 116, 111, 99, 111, 108>>

\* PeerHandShakePacket::into_bytes: 19, the protocol string, eight zero bytes,
\* the info-hash and the peer id.
PeerHandShakePacket_into_bytes(info_hash, peer_id) ==
    <<19>> \o ProtocolString \o [i \in 1..8 |-> 0] \o info_hash \o peer_id

\* PeerHandShakePacket::parse: copy_to_bytes panics when the length byte asks
\* for more than remains; a header other than the protocol string is an Err
\* before anything else is read; get_u64 and the two copy_to_bytes(20) panic
\* when fewer bytes remain.
PeerHandShakePacket_parse(input) ==
    IF Len(input) = 0 THEN Panic
    ELSE LET header_length == input[1]
             rest == advance(input, 1)
         IN IF header_length > Len(rest) THEN Panic
            ELSE IF SubSeq(rest, 1, header_length) # ProtocolString
                 THEN Err("Unexpected peer handshake packet.")
            ELSE LET body == advance(rest, header_length)
                 IN IF Len(body) < 48 THEN Panic
                    ELSE Ok([info_hash |-> SubSeq(body, 9, 28),
                             peer_id |-> SubSeq(body, 29, 48)])

----------------------------------------------------------------------------
\* One peer session (src/src/peer.rs): Peer<Disconnected>::handshake, then
\* Peer<Connected>::download_piece, as the task of spawn_piece_download_task
\* runs them.  The peer may send any frame of PeerFrames at any read.

ceil_div(a, b) == (a + b - 1) \div b

\* The same with the quotient rounded down.
generate_piece_block_requests_floor(index, length) ==
    [i \in 1..(length \div PIECE_BLOCK_SIZE) |->
        [index |-> index,
         begin |-> (i - 1) * PIECE_BLOCK_SIZE,
         length |-> Min(length - (i - 1) * PIECE_BLOCK_SIZE, PIECE_BLOCK_SIZE)]]

\* generate_piece_block_requests: amount = ceil(length / PIECE_BLOCK_SIZE) in
\* f64 (exact for a u32 and a power of two), then for i in 0..amount the
\* offset i * PIECE_BLOCK_SIZE and the size min(length - offset, PIECE_BLOCK_SIZE).
generate_piece_block_requests(index, length) ==
    [i \in 1..ceil_div(length, PIECE_BLOCK_SIZE) |->
        [index |-> index,
         begin |-> (i - 1) * PIECE_BLOCK_SIZE,
         length |-> Min(length - (i - 1) * PIECE_BLOCK_SIZE, PIECE_BLOCK_SIZE)]]

\* PieceBlockRequest::to_message.
to_message(req) == Request(req.index, req.begin, req.length)

\* hash_sha1: SHA-1 is taken to have no collisions.
hash_sha1(bytes) == <<"sha1", bytes>>

\* The info-hash of the torrent, another one, and the two peer ids.
InfoHash == [i \in 1..20 |-> 170]

OtherInfoHash == [i \in 1..20 |-> 187]

ClientPeerId == [i \in 1..20 |-> 1]

RemotePeerId == [i \in 1..20 |-> 2]

\* The bytes of the piece the torrent describes.
PieceBytes(length) == [i \in 1..length |-> 1]

PieceDescriptors ==
    {[index |-> i, length |-> l, hash |-> hash_sha1(PieceBytes(l))] :
        i \in 0..1, l \in 1..MaxPieceLen}

\* The 68-byte replies a peer may give to the handshake: the right one, one
\* with another info-hash, one with another protocol string, and two whose
\* first byte is not 19 (18, and 255 which is more than the 67 bytes left).
HandshakeReplies ==
    LET good == PeerHandShakePacket_into_bytes(InfoHash, RemotePeerId)
        other == PeerHandShakePacket_into_bytes(OtherInfoHash, RemotePeerId)
    IN {good, other,
        [good EXCEPT ![2] = 98], [other EXCEPT ![2] = 98],
        [good EXCEPT ![1] = 18], [other EXCEPT ![1] = 18],
        [good EXCEPT ![1] = 255], [other EXCEPT ![1] = 255]}

\* The frame payloads a peer may send: keep-alive (length 0), Choke, Unchoke,
\* Unchoke with a byte too many, Interested, NotInterested, Have, Bitfield
\* (empty and not), a short Request, a short Piece, Cancel, an unknown id, and
\* the Piece messages with a block of up to MaxPieceLen bytes.
ControlFrames ==
    {<< >>, <<0>>, <<1>>, <<1, 0>>, <<2>>, <<3>>, <<4>> \o put_u32(0), <<5>>,
     <<5, 255>>, <<6>> \o put_u32(0), <<7>> \o put_u32(0),
     <<8>> \o put_u32(0) \o put_u32(0) \o put_u32(1), <<9>>}

PieceFrames ==
    {<<7>> \o put_u32(i) \o put_u32(b) \o block :
        i \in 0..1, b \in 0..1, block \in SeqsUpTo({0, 1}, MaxPieceLen)}

PeerFrames == ControlFrames \cup PieceFrames

\* What went over the stream: a write_all of the session, a frame (or the
\* handshake) the session read, or the end of the stream.
Tx(bytes) == [dir |-> "tx", bytes |-> bytes]

Rx(bytes) == [dir |-> "rx", bytes |-> bytes]

Eof == [dir |-> "eof", bytes |-> << >>]

\* The downloader is not running.
NoDownloader ==
    /\ num_pieces = 0
    /\ piece_queue = << >>
    /\ tracker_rx = << >>
    /\ active_peers = EmptyMap
    /\ new_active_peers = EmptyMap
    /\ new_peers = << >>
    /\ handles = EmptyMap
    /\ ready = << >>
    /\ pc = "none"
    /\ polls = 0
    /\ completed = {}
    /\ output = {}

InitSession ==
    /\ session = "connect"
    /\ descriptor \in PieceDescriptors
    /\ wire = << >>
    /\ piece_buffer = << >>
    /\ NoDownloader
    /\ NoCall

\* The session ends: Ok is the state `next`, an Err fails the session, a
\* panic ends the task.
Ending(res, next) ==
    CASE res.tag = "Ok" -> next
      [] res.tag = "Err" -> "error"
      [] res.tag = "Panic" -> "panicked"

\* handshake, lines 42-44: TcpStream::connect.
Connect(accepted) ==
    /\ session = "connect"
    /\ session' = IF accepted THEN "send_handshake" ELSE "error"
    /\ UNCHANGED <<descriptor, wire, piece_buffer, downloader_vars, call_vars>>

\* handshake, lines 46-49: the client's handshake is written.
SendHandshake ==
    /\ session = "send_handshake"
    /\ wire' = Append(wire, Tx(PeerHandShakePacket_into_bytes(InfoHash, ClientPeerId)))
    /\ session' = "read_handshake"
    /\ UNCHANGED <<descriptor, piece_buffer, downloader_vars, call_vars>>

\* handshake, lines 56-61: the reply is parsed and its info-hash compared.
check_handshake(reply) ==
    LET parsed == PeerHandShakePacket_parse(reply)
    IN IF parsed.tag = "Ok" /\ parsed.val.info_hash # InfoHash
       THEN Err("info hash received from handshake does not match")
       ELSE parsed

\* handshake, lines 51-70: read_exact of 68 bytes, parse, compare.
ReadHandshake(reply) ==
    /\ session = "read_handshake"
    /\ wire' = Append(wire, Rx(reply))
    /\ session' = Ending(check_handshake(reply), "read_bitfield")
    /\ UNCHANGED <<descriptor, piece_buffer, downloader_vars, call_vars>>

\* The stream ends (or the peer resets it) where the session reads: read_u32
\* or read_exact is an Err.
ReadEof ==
    /\ session \in {"read_handshake", "read_bitfield", "read_unchoke", "read_piece_block"}
    /\ wire' = Append(wire, Eof)
    /\ session' = "error"
    /\ UNCHANGED <<descriptor, piece_buffer, downloader_vars, call_vars>>

\* The match of read_bitfield, read_unchoke and read_piece_block on what
\* PeerMessage::parse returns: the expected message, an Err for the parse
\* error, and bail!("unexpected peer message") for any other message.
expect(parsed, msg) ==
    IF parsed.tag = "Ok" /\ parsed.val.msg # msg
    THEN Err("unexpected peer message")
    ELSE parsed

\* read_bitfield (lines 78-91); the frame is the Vec prepare_buffer_with_length
\* sized and read_exact filled.
read_bitfield(frame) == expect(PeerMessage_parse(frame), "Bitfield")

\* read_unchoke taking any message that parses.
read_unchoke_any(frame) == PeerMessage_parse(frame)

\* read_unchoke (lines 93-106).
read_unchoke(frame) == expect(PeerMessage_parse(frame), "Unchoke")

\* read_piece_block (lines 108-128).
read_piece_block(frame) == expect(PeerMessage_parse(frame), "Piece")

\* download_piece, line 141.
ReadBitfield(frame) ==
    /\ session = "read_bitfield"
    /\ wire' = Append(wire, Rx(frame))
    /\ session' = Ending(read_bitfield(frame), "send_interested")
    /\ UNCHANGED <<descriptor, piece_buffer, downloader_vars, call_vars>>

\* download_piece, lines 144-147.
SendInterested ==
    /\ session = "send_interested"
    /\ wire' = Append(wire, Tx(PeerMessage_into_bytes(Interested).val))
    /\ session' = "read_unchoke"
    /\ UNCHANGED <<descriptor, piece_buffer, downloader_vars, call_vars>>

\* download_piece, lines 150-153: read_unchoke, then buf = vec![0u8; length].
ReadUnchoke(frame) ==
    /\ session = "read_unchoke"
    /\ wire' = Append(wire, Rx(frame))
    /\ session' = Ending(read_unchoke(frame), "request")
    /\ piece_buffer' = IF read_unchoke(frame).tag = "Ok"
                       THEN [i \in 1..descriptor.length |-> 0]
                       ELSE piece_buffer
    /\ UNCHANGED <<descriptor, downloader_vars, call_vars>>

\* The block requests of the piece, and how many of them were written.
BlockRequests == generate_piece_block_requests(descriptor.index, descriptor.length)

IsRequest(e) == e.dir = "tx" /\ Len(e.bytes) > 0 /\ e.bytes[1] = 6

Requested == Cardinality({i \in DOMAIN wire : IsRequest(wire[i])})

\* download_piece, lines 154-159: the next block is requested.
SendRequest ==
    /\ session = "request"
    /\ Requested < Len(BlockRequests)
    /\ wire' = Append(wire,
                  Tx(PeerMessage_into_bytes(to_message(BlockRequests[Requested + 1])).val))
    /\ session' = "read_piece_block"
    /\ UNCHANGED <<descriptor, piece_buffer, downloader_vars, call_vars>>

\* check_block_validity comparing the piece index only.
check_block_validity_index_only(req, res) ==
    IF res.index # req.index
    THEN Err("received block piece index does not match requested index")
    ELSE Ok(res)

\* download_piece, lines 166-171 (check_block_validity of piece.rs).
check_block_validity(req, res) ==
    IF res.index # req.index
    THEN Err("received block piece index does not match requested index")
    ELSE IF res.begin # req.begin
    THEN Err("received block piece offset does not match requested offset")
    ELSE Ok(res)

\* download_piece, lines 174-175: buf[begin..begin + req.length]
\* .copy_from_slice(&block) panics when the two lengths differ.
copy_from_slice(buf, req, res) ==
    IF Len(res.block) # req.length THEN Panic
    ELSE Ok([i \in 1..Len(buf) |->
                IF i > res.begin /\ i <= res.begin + req.length
                THEN res.block[i - res.begin] ELSE buf[i]])

\* download_piece, lines 162-176: the block is read, checked and copied.
receive_block(buf, req, frame) ==
    LET read == read_piece_block(frame)
    IN IF read.tag # "Ok" THEN read
       ELSE IF check_block_validity(req, read.val).tag # "Ok"
            THEN check_block_validity(req, read.val)
            ELSE copy_from_slice(buf, req, read.val)

ReadPieceBlock(frame) ==
    /\ session = "read_piece_block"
    /\ wire' = Append(wire, Rx(frame))
    /\ LET res == receive_block(piece_buffer, BlockRequests[Requested], frame)
       IN /\ session' = Ending(res, "request")
          /\ piece_buffer' = IF res.tag = "Ok" THEN res.val ELSE piece_buffer
    /\ UNCHANGED <<descriptor, downloader_vars, call_vars>>

\* download_piece, lines 178-192: every block was received; the hash of buf
\* is compared with the descriptor's.
CheckPieceHash ==
    /\ session = "request"
    /\ Requested = Len(BlockRequests)
    /\ session' = IF descriptor.hash # hash_sha1(piece_buffer) THEN "error" ELSE "success"
    /\ UNCHANGED <<descriptor, wire, piece_buffer, downloader_vars, call_vars>>

NextSession ==
    \/ \E accepted \in BOOLEAN : Connect(accepted)
    \/ SendHandshake
    \/ \E reply \in HandshakeReplies : ReadHandshake(reply)
    \/ ReadEof
    \/ \E frame \in PeerFrames : ReadBitfield(frame)
    \/ SendInterested
    \/ \E frame \in PeerFrames : ReadUnchoke(frame)
    \/ SendRequest
    \/ \E frame \in PeerFrames : ReadPieceBlock(frame)
    \/ CheckPieceHash

\* One session against a peer that may answer anything.
SpecSession == InitSession /\ [][NextSession]_vars

----------------------------------------------------------------------------
\* Functions of the program called on their own: `call` is the function and
\* its argument, `result` what it has returned.

\* The payloads PeerMessage::parse is called on: the frames of PeerFrames and
\* every sequence of up to MaxParseLen bytes of 0..9.
ParseInputs == PeerFrames \cup SeqsUpTo(0..9, MaxParseLen)

InitParse ==
    /\ call \in {[fn |-> "PeerMessage::parse", input |-> input] : input \in ParseInputs}
    /\ result = << >>
    /\ NoSession
    /\ NoDownloader

\* PeerMessage::parse(input) returns, or panics.
Parse ==
    /\ result = << >>
    /\ result' = <<PeerMessage_parse(call.input)>>
    /\ UNCHANGED <<call, downloader_vars, peer_vars>>

SpecParse == InitParse /\ [][Parse]_vars

\* The piece lengths generate_piece_block_requests is called on: every length
\* of up to MaxBlocks blocks.
BlockLengths == 1..(MaxBlocks * PIECE_BLOCK_SIZE)

InitBlocks ==
    /\ call \in {[fn |-> "generate_piece_block_requests", index |-> i, length |-> l] :
                    i \in 0..1, l \in BlockLengths}
    /\ result = [yielded |-> << >>, done |-> FALSE]
    /\ NoSession
    /\ NoDownloader

\* The iterator generate_piece_block_requests returned yields its next item.
IteratorNext ==
    LET requests == generate_piece_block_requests(call.index, call.length)
    IN /\ ~result.done
       /\ Len(result.yielded) < Len(requests)
       /\ result' = [result EXCEPT
                        !.yielded = Append(@, requests[Len(result.yielded) + 1])]
       /\ UNCHANGED <<call, downloader_vars, peer_vars>>

\* The iterator is exhausted.
IteratorEnd ==
    LET requests == generate_piece_block_requests(call.index, call.length)
    IN /\ ~result.done
       /\ Len(result.yielded) = Len(requests)
       /\ result' = [result EXCEPT !.done = TRUE]
       /\ UNCHANGED <<call, downloader_vars, peer_vars>>

NextBlocks == IteratorNext \/ IteratorEnd

SpecBlocks == InitBlocks /\ [][NextBlocks]_vars

----------------------------------------------------------------------------
\* Numbers wider than the model checker's integers (u32, u64, i64) are kept
\* as their decimal digits, most significant first, without leading zeros
\* (zero is <<0>>): the form in which bencode writes them.

Reverse(s) == [i \in 1..Len(s) |-> s[Len(s) + 1 - i]]

Max(a, b) == IF a > b THEN a ELSE b

RECURSIVE StripZeros(_)
StripZeros(d) ==
    IF Len(d) > 1 /\ d[1] = 0 THEN StripZeros(Tail(d)) ELSE d

\* The digit of weight 10^(i-1) of the reversed digits e.
DigitAt(e, i) == IF i <= Len(e) THEN e[i] ELSE 0

RECURSIVE DecCompareFrom(_, _, _)
DecCompareFrom(a, b, i) ==
    IF i > Len(a) THEN 0
    ELSE IF a[i] < b[i] THEN -1
    ELSE IF a[i] > b[i] THEN 1
    ELSE DecCompareFrom(a, b, i + 1)

\* -1, 0 or 1 as a is below, equal to or above b.
DecCompare(a, b) ==
    IF Len(a) < Len(b) THEN -1
    ELSE IF Len(a) > Len(b) THEN 1
    ELSE DecCompareFrom(a, b, 1)

DecLeq(a, b) == DecCompare(a, b) <= 0

DecLess(a, b) == DecCompare(a, b) < 0

RECURSIVE AddFrom(_, _, _, _)
AddFrom(a, b, i, carry) ==
    IF i > Max(Len(a), Len(b))
    THEN IF carry = 0 THEN << >> ELSE <<carry>>
    ELSE LET t == DigitAt(a, i) + DigitAt(b, i) + carry
         IN <<t % 10>> \o AddFrom(a, b, i + 1, t \div 10)

DecAdd(a, b) == StripZeros(Reverse(AddFrom(Reverse(a), Reverse(b), 1, 0)))

RECURSIVE SubFrom(_, _, _, _)
SubFrom(a, b, i, borrow) ==
    IF i > Len(a) THEN << >>
    ELSE LET t == DigitAt(a, i) - DigitAt(b, i) - borrow
         IN IF t < 0 THEN <<t + 10>> \o SubFrom(a, b, i + 1, 1)
            ELSE <<t>> \o SubFrom(a, b, i + 1, 0)

\* a - b, for a >= b.
DecSub(a, b) == StripZeros(Reverse(SubFrom(Reverse(a), Reverse(b), 1, 0)))

RECURSIVE MulDigitFrom(_, _, _, _)
MulDigitFrom(a, d, i, carry) ==
    IF i > Len(a)
    THEN IF carry = 0 THEN << >> ELSE <<carry>>
    ELSE LET t == a[i] * d + carry
         IN <<t % 10>> \o MulDigitFrom(a, d, i + 1, t \div 10)

RECURSIVE MulFrom(_, _, _)
MulFrom(a, b, j) ==
    IF j > Len(b) THEN <<0>>
    ELSE AddFrom(MulDigitFrom(a, b[j], 1, 0), <<0>> \o MulFrom(a, b, j + 1), 1, 0)

DecMul(a, b) == StripZeros(Reverse(MulFrom(Reverse(a), Reverse(b), 1)))

RECURSIVE Reduce(_, _)
Reduce(r, m) == IF DecLess(r, m) THEN r ELSE Reduce(DecSub(r, m), m)

RECURSIVE ModFrom(_, _, _, _)
ModFrom(a, m, i, r) ==
    IF i > Len(a) THEN r
    ELSE ModFrom(a, m, i + 1, Reduce(StripZeros(r \o <<a[i]>>), m))

\* a mod m.
DecMod(a, m) == ModFrom(a, m, 1, <<0>>)

RECURSIVE DigitsOf(_)
DigitsOf(n) == IF n < 10 THEN <<n>> ELSE DigitsOf(n \div 10) \o <<n % 10>>

\* The digits of a number the model checker can hold.
Dec(n) == DigitsOf(n)

\* 2^32 - 1, 2^32, 2^63 - 1, 2^63, 2^64 - 1 and 2^64.
U32_MAX == <<4, 2, 9, 4, 9, 6, 7, 2, 9, 5>>

TWO_32 == DecAdd(U32_MAX, <<1>>)

I64_MAX == <<9, 2, 2, 3, 3, 7, 2, 0, 3, 6, 8, 5, 4, 7, 7, 5, 8, 0, 7>>

TWO_63 == DecAdd(I64_MAX, <<1>>)

TWO_64 == DecMul(TWO_32, TWO_32)

U64_MAX == DecSub(TWO_64, <<1>>)

----------------------------------------------------------------------------
\* calculate_piece_length (util.rs).  piece_index * piece_length is a u32
\* product and torrent_length - ... a u64 difference: a build with overflow
\* checks panics when either overflows, a build without them wraps.
\* u32::try_from(...).expect(...) panics when the difference exceeds u32.

calculate_piece_length(piece_length, torrent_length, piece_index, overflow_checks) ==
    LET product == DecMul(piece_index, piece_length)
        offset == DecMod(product, TWO_32)
        remaining == IF DecLess(torrent_length, offset)
                     THEN DecSub(DecAdd(torrent_length, TWO_64), offset)
                     ELSE DecSub(torrent_length, offset)
    IN IF overflow_checks /\ (DecLess(U32_MAX, product) \/ DecLess(torrent_length, offset))
       THEN Panic
       ELSE IF DecLess(U32_MAX, remaining)
       THEN Panic
       ELSE Ok(IF DecLeq(piece_length, remaining) THEN piece_length ELSE remaining)

\* A torrent's piece length, length and one of its piece indices.
PieceOf(piece_length, torrent_length, piece_index) ==
    [piece_length |-> piece_length, torrent_length |-> torrent_length,
     piece_index |-> piece_index]

\* The pieces of the torrents of up to MaxTorrentLength bytes: index i is a
\* piece when i * piece_length < torrent_length.
SmallPieces ==
    {PieceOf(Dec(p), Dec(l), Dec(i)) :
        <<p, l, i>> \in {t \in (1..MaxTorrentLength) \X (1..MaxTorrentLength)
                                  \X (0..(MaxTorrentLength - 1)) :
                            t[3] * t[1] < t[2]}}

\* Pieces of torrents of about 4 GiB: 2^32 - 1 bytes in pieces of 2^16 and
\* of 2^31, 2^32 and 2^32 + 1 bytes in pieces of 2^20, 2^32 + 5 bytes in
\* pieces of 2^31.
LargePieces ==
    LET two_16 == Dec(65536)
        two_20 == Dec(1048576)
        two_31 == DecMul(Dec(32768), Dec(65536))
    IN {PieceOf(two_16, U32_MAX, Dec(0)),
        PieceOf(two_16, U32_MAX, Dec(65535)),
        PieceOf(two_31, U32_MAX, Dec(0)),
        PieceOf(two_31, U32_MAX, Dec(1)),
        PieceOf(two_20, TWO_32, Dec(0)),
        PieceOf(two_20, TWO_32, Dec(4095)),
        PieceOf(two_20, DecAdd(TWO_32, Dec(1)), Dec(0)),
        PieceOf(two_20, DecAdd(TWO_32, Dec(1)), Dec(4095)),
        PieceOf(two_20, DecAdd(TWO_32, Dec(1)), Dec(4096)),
        PieceOf(two_31, DecAdd(TWO_32, Dec(5)), Dec(1)),
        PieceOf(two_31, DecAdd(TWO_32, Dec(5)), Dec(2))}

InitPieceLength ==
    /\ call \in {[fn |-> "calculate_piece_length", piece |-> piece,
                  overflow_checks |-> checks] :
                    piece \in SmallPieces \cup LargePieces, checks \in BOOLEAN}
    /\ result = << >>
    /\ NoSession
    /\ NoDownloader

\* calculate_piece_length(piece_length, torrent_length, piece_index) returns,
\* or panics.
CalculatePieceLength ==
    /\ result = << >>
    /\ result' = <<calculate_piece_length(call.piece.piece_length,
                                          call.piece.torrent_length,
                                          call.piece.piece_index,
                                          call.overflow_checks)>>
    /\ UNCHANGED <<call, downloader_vars, peer_vars>>

SpecPieceLength == InitPieceLength /\ [][CalculatePieceLength]_vars

----------------------------------------------------------------------------
\* The bencode crate (bencode/src/lib.rs).  Bytes are numbers of 0..255.

Letters ==
    <<"a", "b", "c", "d", "e", "f", "g", "h", "i", "j", "k", "l", "m",
      "n", "o", "p", "q", "r", "s", "t", "u", "v", "w", "x", "y", "z">>

\* The ASCII code of a lower-case letter, a digit, ':', '-' or a space.
Byte(c) ==
    IF \E k \in 1..26 : Letters[k] = c
    THEN 96 + (CHOOSE k \in 1..26 : Letters[k] = c)
    ELSE CASE c = "0" -> 48 [] c = "1" -> 49 [] c = "2" -> 50 [] c = "3" -> 51
           [] c = "4" -> 52 [] c = "5" -> 53 [] c = "6" -> 54 [] c = "7" -> 55
           [] c = "8" -> 56 [] c = "9" -> 57 [] c = ":" -> 58 [] c = "-" -> 45
           [] c = " " -> 32

\* The bytes of a text given as its characters.
Text(chars) == [k \in 1..Len(chars) |-> Byte(chars[k])]

\* The bytes of a number's decimal digits, and back.
AsciiOf(digits) == [k \in 1..Len(digits) |-> 48 + digits[k]]

is_ascii_digit(b) == b \in 48..57

\* The byte at pos, or -1 past the end of the input.
ByteAt(input, pos) == IF pos \in 1..Len(input) THEN input[pos] ELSE -1

RECURSIVE DecToIntFrom(_, _, _)
DecToIntFrom(d, i, n) ==
    IF i > Len(d) THEN n ELSE DecToIntFrom(d, i + 1, 10 * n + d[i])

\* The number of a short digit sequence.
DecToInt(d) == DecToIntFrom(d, 1, 0)

RECURSIVE Flatten(_)
Flatten(seqs) == IF seqs = << >> THEN << >> ELSE Head(seqs) \o Flatten(Tail(seqs))

\* BencodeValue: a record whose one field names the variant.  An i64 is its
\* sign and its magnitude's digits; a Dict is the BTreeMap's entries
\* <<key, value>> in the order the map iterates them.
String(s) == [string |-> s]

I64(neg, mag) == [neg |-> neg, mag |-> mag]

Integer(n) == [integer |-> n]

List(l) == [list |-> l]

Dict(d) == [dict |-> d]

IsString(v) == DOMAIN v = {"string"}

IsInteger(v) == DOMAIN v = {"integer"}

IsList(v) == DOMAIN v = {"list"}

IsDict(v) == DOMAIN v = {"dict"}

I64_MIN == I64(TRUE, TWO_63)

\* n as i64, for a u64 n: the two's complement reading of its 64 bits.
as_i64(n) ==
    IF DecLess(n, TWO_63) THEN I64(FALSE, n) ELSE I64(TRUE, DecSub(TWO_64, n))

\* -x on an i64: -(i64::MIN) overflows, which panics in a build with
\* overflow checks and wraps to i64::MIN in one without.
neg_i64(x, overflow_checks) ==
    IF x = I64_MIN THEN (IF overflow_checks THEN [tag |-> "Panic"] ELSE [tag |-> "Ok", val |-> x])
    ELSE IF x.mag = <<0>> THEN [tag |-> "Ok", val |-> x]
    ELSE [tag |-> "Ok", val |-> I64(~x.neg, x.mag)]

\* BString's to_string(): the bytes as UTF-8 text, every maximal invalid
\* prefix replaced by U+FFFD (EF BF BD).
utf8_char_width(b) ==
    IF b < 128 THEN 1
    ELSE IF b \in 194..223 THEN 2
    ELSE IF b \in 224..239 THEN 3
    ELSE IF b \in 240..244 THEN 4
    ELSE 0

IsContinuation(b) == b \in 128..191

SecondOfThree(b, c) ==
    \/ b = 224 /\ c \in 160..191
    \/ b \in 225..236 /\ c \in 128..191
    \/ b = 237 /\ c \in 128..159
    \/ b \in 238..239 /\ c \in 128..191

SecondOfFour(b, c) ==
    \/ b = 240 /\ c \in 144..191
    \/ b \in 241..243 /\ c \in 128..191
    \/ b = 244 /\ c \in 128..143

\* The chunk of s at i: a valid character of len bytes, or an invalid
\* prefix of len bytes.
Utf8Chunk(s, i) ==
    LET w == utf8_char_width(s[i])
        valid(n) == [valid |-> TRUE, len |-> n]
        invalid(n) == [valid |-> FALSE, len |-> n]
    IN CASE w = 1 -> valid(1)
         [] w = 2 -> IF IsContinuation(ByteAt(s, i + 1)) THEN valid(2) ELSE invalid(1)
         [] w = 3 -> IF ~SecondOfThree(s[i], ByteAt(s, i + 1)) THEN invalid(1)
                     ELSE IF ~IsContinuation(ByteAt(s, i + 2)) THEN invalid(2)
                     ELSE valid(3)
         [] w = 4 -> IF ~SecondOfFour(s[i], ByteAt(s, i + 1)) THEN invalid(1)
                     ELSE IF ~IsContinuation(ByteAt(s, i + 2)) THEN invalid(2)
                     ELSE IF ~IsContinuation(ByteAt(s, i + 3)) THEN invalid(3)
                     ELSE valid(4)
         [] OTHER -> invalid(1)

REPLACEMENT_CHARACTER == <<239, 191, 189>>

RECURSIVE to_string_from(_, _)
to_string_from(s, i) ==
    IF i > Len(s) THEN << >>
    ELSE LET chunk == Utf8Chunk(s, i)
         IN (IF chunk.valid THEN SubSeq(s, i, i + chunk.len - 1)
             ELSE REPLACEMENT_CHARACTER)
            \o to_string_from(s, i + chunk.len)

to_string(s) == to_string_from(s, 1)

\* Ord of String: byte-lexicographic.
RECURSIVE BytesLessFrom(_, _, _)
BytesLessFrom(a, b, i) ==
    IF i > Len(b) THEN FALSE
    ELSE IF i > Len(a) THEN TRUE
    ELSE IF a[i] # b[i] THEN a[i] < b[i]
    ELSE BytesLessFrom(a, b, i + 1)

BytesLess(a, b) == BytesLessFrom(a, b, 1)

\* An insert that keeps the entries in the order of their insertion.
BTreeMap_push(map, key, val) == Append(map, <<key, val>>)

\* BTreeMap::insert: the entry takes its place in key order, and replaces
\* the entry of an equal key.
BTreeMap_insert(map, key, val) ==
    LET below == SelectSeq(map, LAMBDA e : BytesLess(e[1], key))
        above == SelectSeq(map, LAMBDA e : BytesLess(key, e[1]))
    IN below \o <<<<key, val>>>> \o above

RECURSIVE BTreeMap_from_iter_to(_, _, _)
BTreeMap_from_iter_to(kvs, i, map) ==
    IF i > Len(kvs) THEN map
    ELSE BTreeMap_from_iter_to(kvs, i + 1, BTreeMap_insert(map, kvs[i][1], kvs[i][2]))

\* BTreeMap::from_iter: of entries with equal keys the last one stays.
BTreeMap_from_iter(kvs) == BTreeMap_from_iter_to(kvs, 1, << >>)

\* The grammar bencode_parser.  A rule applied at pos matches up to a
\* position and yields a value, fails, or panics in its action.
Matched(pos, val) == [tag |-> "Matched", pos |-> pos, val |-> val]

Failed == [tag |-> "Failed"]

Panicked == [tag |-> "Panic"]

RECURSIVE DigitsEnd(_, _)
DigitsEnd(input, pos) ==
    IF is_ascii_digit(ByteAt(input, pos)) THEN DigitsEnd(input, pos + 1) ELSE pos

\* rule integer() -> u64: (non_zero_digit digit*) / digit, then parse::<u64>,
\* which fails above u64::MAX.
integer(input, pos) ==
    LET b == ByteAt(input, pos)
    IN IF is_ascii_digit(b) /\ b # 48
       THEN LET end == DigitsEnd(input, pos + 1)
                n == [k \in 1..(end - pos) |-> input[pos + k - 1] - 48]
            IN IF DecLeq(n, U64_MAX) THEN Matched(end, n) ELSE Failed
       ELSE IF is_ascii_digit(b) THEN Matched(pos + 1, <<0>>)
       ELSE Failed

\* rule bstring(): n:integer() ":" value:$([_]*<{n as usize}>).
bstring(input, pos) ==
    LET n == integer(input, pos)
    IN IF n.tag # "Matched" THEN Failed
       ELSE IF ByteAt(input, n.pos) # Byte(":") THEN Failed
       ELSE IF DecLess(Dec(Len(input) - n.pos), n.val) THEN Failed
       ELSE LET len == DecToInt(n.val)
            IN Matched(n.pos + 1 + len, SubSeq(input, n.pos + 1, n.pos + len))

\* rule binteger(): "i" sign:[b'-']? n:integer() "e"
\* { sign.map(|_| -(n as i64)).unwrap_or(n as i64) }.
binteger(input, pos, overflow_checks) ==
    IF ByteAt(input, pos) # Byte("i") THEN Failed
    ELSE LET sign == ByteAt(input, pos + 1) = Byte("-")
             n == integer(input, IF sign THEN pos + 2 ELSE pos + 1)
         IN IF n.tag # "Matched" THEN Failed
            ELSE IF ByteAt(input, n.pos) # Byte("e") THEN Failed
            ELSE IF ~sign THEN Matched(n.pos + 1, as_i64(n.val))
            ELSE LET negated == neg_i64(as_i64(n.val), overflow_checks)
                 IN IF negated.tag = "Panic" THEN Panicked
                    ELSE Matched(n.pos + 1, negated.val)

RECURSIVE value(_, _, _)
RECURSIVE values(_, _, _, _)
RECURSIVE entries(_, _, _, _)

\* A rule that matched `open`, then the repetition `body`, and now needs "e".
Closed(input, body, val) ==
    IF body.tag = "Panic" THEN Panicked
    ELSE IF ByteAt(input, body.pos) # Byte("e") THEN Failed
    ELSE Matched(body.pos + 1, val)

\* rule blist(): "l" l:value()* "e".
blist_end(input, l) == Closed(input, l, IF l.tag = "Matched" THEN l.val ELSE << >>)

blist(input, pos, overflow_checks) ==
    IF ByteAt(input, pos) # Byte("l") THEN Failed
    ELSE blist_end(input, values(input, pos + 1, overflow_checks, << >>))

\* rule bdict(): "d" kvs:(k:bstring() v:value() { (k.to_string(), v) })* "e"
\* { BTreeMap::from_iter(kvs) }.
bdict_end(input, kvs) ==
    Closed(input, kvs, IF kvs.tag = "Matched" THEN BTreeMap_from_iter(kvs.val) ELSE << >>)

bdict(input, pos, overflow_checks) ==
    IF ByteAt(input, pos) # Byte("d") THEN Failed
    ELSE bdict_end(input, entries(input, pos + 1, overflow_checks, << >>))

\* rule value(): bstring / binteger / blist / bdict, in this order.
value_choice(s, n, l, d) ==
    IF s.tag = "Matched" THEN Matched(s.pos, String(s.val))
    ELSE IF n.tag = "Panic" THEN Panicked
    ELSE IF n.tag = "Matched" THEN Matched(n.pos, Integer(n.val))
    ELSE IF l.tag = "Panic" THEN Panicked
    ELSE IF l.tag = "Matched" THEN Matched(l.pos, List(l.val))
    ELSE IF d.tag = "Panic" THEN Panicked
    ELSE IF d.tag = "Matched" THEN Matched(d.pos, Dict(d.val))
    ELSE Failed

value(input, pos, overflow_checks) ==
    value_choice(bstring(input, pos), binteger(input, pos, overflow_checks),
                 blist(input, pos, overflow_checks), bdict(input, pos, overflow_checks))

\* value()*: values as long as one matches.
values(input, pos, overflow_checks, acc) ==
    LET v == value(input, pos, overflow_checks)
    IN IF v.tag = "Panic" THEN Panicked
       ELSE IF v.tag = "Failed" THEN Matched(pos, acc)
       ELSE values(input, v.pos, overflow_checks, Append(acc, v.val))

\* (k:bstring() v:value())*: entries as long as one matches.
entries(input, pos, overflow_checks, acc) ==
    LET k == bstring(input, pos)
        v == value(input, k.pos, overflow_checks)
    IN IF k.tag = "Failed" THEN Matched(pos, acc)
       ELSE IF v.tag = "Panic" THEN Panicked
       ELSE IF v.tag = "Failed" THEN Matched(pos, acc)
       ELSE entries(input, v.pos, overflow_checks,
                    Append(acc, <<to_string(k.val), v.val>>))

\* BencodeValue::try_from_bytes: the rule value() must match the whole input.
try_from_bytes(bytes, overflow_checks) ==
    LET v == value(bytes, 1, overflow_checks)
    IN IF v.tag = "Panic" THEN Panic
       ELSE IF v.tag = "Failed" \/ v.pos # Len(bytes) + 1 THEN Err("ParseError")
       ELSE Ok(v.val)

\* BencodeValue::to_byte_string.
RECURSIVE to_byte_string(_)
to_byte_string(v) ==
    CASE IsString(v) ->
            AsciiOf(Dec(Len(v.string))) \o <<Byte(":")>> \o v.string
      [] IsInteger(v) ->
            <<Byte("i")>> \o (IF v.integer.neg THEN <<Byte("-")>> ELSE << >>)
                \o AsciiOf(v.integer.mag) \o <<Byte("e")>>
      [] IsList(v) ->
            <<Byte("l")>>
                \o Flatten([k \in 1..Len(v.list) |-> to_byte_string(v.list[k])])
                \o <<Byte("e")>>
      [] IsDict(v) ->
            <<Byte("d")>>
                \o Flatten([k \in 1..Len(v.dict) |->
                        AsciiOf(Dec(Len(v.dict[k][1]))) \o <<Byte(":")>> \o v.dict[k][1]
                            \o to_byte_string(v.dict[k][2])])
                \o <<Byte("e")>>

\* The bytes of "i<n>e" and of "i-<n>e" for the digits n.
IntegerBytes(sign, n) ==
    <<Byte("i")>> \o (IF sign THEN <<Byte("-")>> ELSE << >>) \o AsciiOf(n)
        \o <<Byte("e")>>

\* Valid bencode whose dict keys are in strictly ascending byte order:
\* i0e, i42e, i-42e, the ends of the i64 range, 0:, 4:spam, a string of the
\* bytes FF 00, le, l4:spami42ee, lli1eee, de, d1:bi8e4:spam3:fooe,
\* d1:ad1:a0:1:bleee, and dicts whose key is the byte FF, the bytes C3 A9
\* (valid UTF-8), and the bytes E2 82 (truncated UTF-8).
SortedCorpus ==
    {IntegerBytes(FALSE, <<0>>),
     IntegerBytes(FALSE, <<4, 2>>),
     IntegerBytes(TRUE, <<4, 2>>),
     IntegerBytes(FALSE, I64_MAX),
     IntegerBytes(TRUE, I64_MAX),
     IntegerBytes(TRUE, TWO_63),
     Text(<<"0", ":">>),
     Text(<<"4", ":", "s", "p", "a", "m">>),
     Text(<<"2", ":">>) \o <<255, 0>>,
     Text(<<"l", "e">>),
     Text(<<"l", "4", ":", "s", "p", "a", "m", "i", "4", "2", "e", "e">>),
     Text(<<"l", "l", "i", "1", "e", "e", "e">>),
     Text(<<"d", "e">>),
     Text(<<"d", "1", ":", "b", "i", "8", "e", "4", ":", "s", "p", "a", "m",
            "3", ":", "f", "o", "o", "e">>),
     Text(<<"d", "1", ":", "a", "d", "1", ":", "a", "0", ":", "1", ":", "b",
            "l", "e", "e", "e">>),
     Text(<<"d", "1", ":">>) \o <<255>> \o Text(<<"i", "0", "e", "e">>),
     Text(<<"d", "2", ":">>) \o <<195, 169>> \o Text(<<"i", "0", "e", "e">>),
     Text(<<"d", "2", ":">>) \o <<226, 130>> \o Text(<<"i", "0", "e", "e">>)}

\* Other inputs: integers at and beyond the ends of the u64 range, i-0e,
\* i03e, 03:abc, a valid value followed by one more byte, truncated and
\* unterminated values, a negative length, dicts whose keys are out of
\* order or repeated, and a dict whose value is missing.
OtherCorpus ==
    {IntegerBytes(FALSE, TWO_63),
     IntegerBytes(FALSE, DecAdd(TWO_63, <<1>>)),
     IntegerBytes(FALSE, U64_MAX),
     IntegerBytes(FALSE, TWO_64),
     IntegerBytes(TRUE, DecAdd(TWO_63, <<1>>)),
     IntegerBytes(TRUE, U64_MAX),
     IntegerBytes(TRUE, TWO_64),
     IntegerBytes(TRUE, <<0>>),
     Text(<<"i", "0", "3", "e">>),
     Text(<<"0", "3", ":", "a", "b", "c">>),
     IntegerBytes(FALSE, <<4, 2>>) \o <<Byte("e")>>,
     IntegerBytes(TRUE, TWO_63) \o <<Byte("e")>>,
     IntegerBytes(FALSE, TWO_63) \o <<Byte("e")>>,
     Text(<<"4", ":", "s", "p", "a", "m", "x">>),
     Text(<<"l", "e", "l", "e">>),
     Text(<<"d", "e", "0", ":">>),
     Text(<<"5", ":", "s", "p", "a", "m">>),
     Text(<<"i", "4", "2">>),
     Text(<<"l", "i", "4", "2", "e">>),
     Text(<<"l", "i">>) \o AsciiOf(TWO_63) \o <<Byte("e")>>,
     Text(<<"l", "i", "-">>) \o AsciiOf(TWO_63) \o <<Byte("e")>>,
     Text(<<"d", "1", ":", "a", "i", "4", "2", "e">>),
     Text(<<"-", "1", ":", "a">>),
     Text(<<"d", "4", ":", "s", "p", "a", "m", "3", ":", "f", "o", "o",
            "1", ":", "b", "i", "8", "e", "e">>),
     Text(<<"d", "1", ":", "x", "d", "1", ":", "b", "0", ":", "1", ":", "a",
            "0", ":", "e", "e">>),
     Text(<<"l", "d", "1", ":", "b", "0", ":", "1", ":", "a", "0", ":", "e", "e">>),
     Text(<<"d", "1", ":", "a", "i", "1", "e", "1", ":", "a", "i", "2", "e", "e">>),
     Text(<<"d", "1", ":", "a", "e">>)}

\* The bytes the short inputs are made of: i e l d - 0 1 : a.
BencodeAlphabet == Range(Text(<<"i", "e", "l", "d", "-", "0", "1", ":", "a">>))

\* The inputs try_from_bytes is called on: the two corpora and every sequence
\* of up to MaxBencodeLen bytes of BencodeAlphabet.
BencodeInputs ==
    SortedCorpus \cup OtherCorpus \cup SeqsUpTo(BencodeAlphabet, MaxBencodeLen)

\* The values to_byte_string is called on: byte strings, integers, lists of
\* them, and dicts collected from up to two entries in either order, the
\* lists and dicts also nested in a list and in a dict.
ScalarValues ==
    {String(s) : s \in {<< >>, Text(<<"a">>), Text(<<"s", "p", "a", "m">>), <<255, 0>>}}
    \cup {Integer(n) : n \in {I64(FALSE, <<0>>), I64(FALSE, <<4, 2>>), I64(TRUE, <<4, 2>>),
                              I64(FALSE, I64_MAX), I64(TRUE, I64_MAX), I64_MIN}}

BencodeKeys ==
    {Text(<<"b">>), Text(<<"s", "p", "a", "m">>), Text(<<"b", "a">>), <<195, 169>>}

FlatValues ==
    ScalarValues
    \cup {List(l) : l \in SeqsUpTo({String(Text(<<"a">>)), Integer(I64(TRUE, <<4, 2>>))}, 2)}
    \cup {Dict(BTreeMap_from_iter(kvs)) :
            kvs \in SeqsUpTo(BencodeKeys \X {Integer(I64(FALSE, <<8>>)),
                                             String(Text(<<"f", "o", "o">>))}, 2)}

BencodeValues ==
    FlatValues
    \cup {List(<<v>>) : v \in FlatValues}
    \cup {Dict(BTreeMap_from_iter(<<<<Text(<<"x">>), v>>, <<Text(<<"a">>), v>>>>)) :
            v \in FlatValues}

InitBencode ==
    /\ call \in {[fn |-> "try_from_bytes", input |-> input, overflow_checks |-> checks] :
                    input \in BencodeInputs, checks \in BOOLEAN}
              \cup {[fn |-> "to_byte_string", value |-> v, overflow_checks |-> checks] :
                    v \in BencodeValues, checks \in BOOLEAN}
    /\ result = << >>
    /\ NoSession
    /\ NoDownloader

\* BencodeValue::try_from_bytes(input) returns, or panics.
TryFromBytes ==
    /\ call.fn = "try_from_bytes"
    /\ result = << >>
    /\ result' = <<try_from_bytes(call.input, call.overflow_checks)>>
    /\ UNCHANGED <<call, downloader_vars, peer_vars>>

\* value.to_byte_string() returns.
ToByteString ==
    /\ call.fn = "to_byte_string"
    /\ result = << >>
    /\ result' = <<Ok(to_byte_string(call.value))>>
    /\ UNCHANGED <<call, downloader_vars, peer_vars>>

\* The value try_from_bytes returned is encoded.
EncodeParsed ==
    /\ call.fn = "try_from_bytes"
    /\ Len(result) = 1
    /\ result[1].tag = "Ok"
    /\ result' = Append(result, Ok(to_byte_string(result[1].val)))
    /\ UNCHANGED <<call, downloader_vars, peer_vars>>

\* The bytes to_byte_string returned are parsed.
ParseEncoded ==
    /\ \/ call.fn = "to_byte_string" /\ Len(result) = 1
       \/ call.fn = "try_from_bytes" /\ Len(result) = 2
    /\ result' = Append(result,
                        try_from_bytes(result[Len(result)].val, call.overflow_checks))
    /\ UNCHANGED <<call, downloader_vars, peer_vars>>

NextBencode == TryFromBytes \/ ToByteString \/ EncodeParsed \/ ParseEncoded

SpecBencode == InitBencode /\ [][NextBencode]_vars

----------------------------------------------------------------------------
\* Loading a torrent file (torrent.rs) through the bencode crate's serde
\* support (de.rs, ser.rs).

\* The entries of a map with the key: none or one.
Field(map, key) == SelectSeq(map, LAMBDA e : e[1] = key)

\* Deserializer::deserialize_u64: a non-negative Integer.
deserialize_u64(v) ==
    IF ~IsInteger(v) THEN Err("invalid type")
    ELSE IF v.integer.neg THEN Err("invalid value")
    ELSE Ok(v.integer.mag)

\* Deserializer::deserialize_u8, for the elements of a byte sequence.
deserialize_u8(v) ==
    IF ~IsInteger(v) THEN Err("invalid type")
    ELSE IF v.integer.neg \/ DecLess(Dec(255), v.integer.mag) THEN Err("invalid value")
    ELSE Ok(DecToInt(v.integer.mag))

\* Deserializer::deserialize_byte_buf into a byte container (BString, Bytes):
\* a String gives its bytes (visit_bytes), a List of u8 its elements
\* (visit_seq).
deserialize_byte_buf(v) ==
    IF IsString(v) THEN Ok(v.string)
    ELSE IF IsList(v)
    THEN IF \A k \in 1..Len(v.list) : deserialize_u8(v.list[k]).tag = "Ok"
         THEN Ok([k \in 1..Len(v.list) |-> deserialize_u8(v.list[k]).val])
         ELSE Err("invalid value")
    ELSE Err("invalid type")

\* Deserializer::deserialize_string into a String: the bytes of a String
\* value that are valid UTF-8.
deserialize_string(v) ==
    IF IsString(v) /\ to_string(v.string) = v.string THEN Ok(v.string)
    ELSE Err("invalid type")

\* The pieces field: Bytes::deserialize, then chunks of 20 bytes without a
\* remainder.
deserialize_chunks(v) ==
    LET s == deserialize_byte_buf(v)
    IN IF s.tag # "Ok" THEN s
       ELSE IF Len(s.val) % 20 # 0 THEN Err("byte size should be divisible by N")
       ELSE Ok([k \in 1..(Len(s.val) \div 20) |->
                    SubSeq(s.val, 20 * (k - 1) + 1, 20 * k)])

\* A struct's field: the error of a missing field, or what its deserializer
\* makes of the value.  Keys that name no field are ignored.
deserialize_field(map, key, result_of_value) ==
    IF Field(map, key) = << >> THEN Err("missing field") ELSE result_of_value

KEY_LENGTH == Text(<<"l", "e", "n", "g", "t", "h">>)

KEY_NAME == Text(<<"n", "a", "m", "e">>)

KEY_PIECE_LENGTH == Text(<<"p", "i", "e", "c", "e", " ", "l", "e", "n", "g", "t", "h">>)

KEY_PIECES == Text(<<"p", "i", "e", "c", "e", "s">>)

KEY_ANNOUNCE == Text(<<"a", "n", "n", "o", "u", "n", "c", "e">>)

KEY_INFO == Text(<<"i", "n", "f", "o">>)

\* TorrentInfo's derived Deserialize, through deserialize_struct and
\* deserialize_map.
deserialize_TorrentInfo(v) ==
    IF ~IsDict(v) THEN Err("invalid type")
    ELSE LET d == v.dict
             length == deserialize_field(d, KEY_LENGTH,
                            deserialize_u64(Field(d, KEY_LENGTH)[1][2]))
             name == deserialize_field(d, KEY_NAME,
                            deserialize_byte_buf(Field(d, KEY_NAME)[1][2]))
             piece_length == deserialize_field(d, KEY_PIECE_LENGTH,
                            deserialize_u64(Field(d, KEY_PIECE_LENGTH)[1][2]))
             pieces == deserialize_field(d, KEY_PIECES,
                            deserialize_chunks(Field(d, KEY_PIECES)[1][2]))
         IN IF \/ length.tag # "Ok" \/ name.tag # "Ok"
               \/ piece_length.tag # "Ok" \/ pieces.tag # "Ok"
            THEN Err("invalid info")
            ELSE Ok([length |-> length.val, name |-> name.val,
                     piece_length |-> piece_length.val, pieces |-> pieces.val])

\* TorrentFile's derived Deserialize (BencodeValue::into_deserialize).
into_deserialize(v) ==
    IF ~IsDict(v) THEN Err("invalid type")
    ELSE LET d == v.dict
             announce == deserialize_field(d, KEY_ANNOUNCE,
                            deserialize_string(Field(d, KEY_ANNOUNCE)[1][2]))
             info == deserialize_field(d, KEY_INFO,
                            deserialize_TorrentInfo(Field(d, KEY_INFO)[1][2]))
         IN IF announce.tag # "Ok" \/ info.tag # "Ok"
            THEN Err("torrent contents do not match torrent specifications")
            ELSE Ok([announce |-> announce.val, info |-> info.val])

\* Serializer::serialize_u64: an Integer, when the number fits an i64.
serialize_u64(n) ==
    IF DecLeq(n, I64_MAX) THEN Ok(Integer(I64(FALSE, n)))
    ELSE Err("invalid value: value in u64 cannot be stored in i64")

\* BencodeValue::from_serialize(&info): TorrentInfo's derived Serialize, its
\* four fields inserted into MapSerializer's BTreeMap.
from_serialize(info) ==
    LET length == serialize_u64(info.length)
        piece_length == serialize_u64(info.piece_length)
    IN IF length.tag # "Ok" \/ piece_length.tag # "Ok"
       THEN Err("failed to serialize value to bencode")
       ELSE Ok(Dict(BTreeMap_from_iter(
                <<<<KEY_LENGTH, length.val>>,
                  <<KEY_NAME, String(info.name)>>,
                  <<KEY_PIECE_LENGTH, piece_length.val>>,
                  <<KEY_PIECES, String(Flatten(info.pieces))>>>>)))

\* TorrentFile::from_file_path, from the file's contents on.
TorrentFile_from_file_path(contents, overflow_checks) ==
    LET parsed_contents == try_from_bytes(contents, overflow_checks)
    IN IF parsed_contents.tag # "Ok" THEN parsed_contents
       ELSE into_deserialize(parsed_contents.val)

\* TorrentFile::torrent_info_hash.
torrent_info_hash(file) ==
    LET torrent_info == from_serialize(file.info)
    IN IF torrent_info.tag # "Ok" THEN torrent_info
       ELSE Ok(hash_sha1(to_byte_string(torrent_info.val)))

\* The bytes of a string, and of a dict with the given keys and encoded
\* values in the given order.
StringBytes(s) == AsciiOf(Dec(Len(s))) \o <<Byte(":")>> \o s

DictBytes(kvs) ==
    <<Byte("d")>>
        \o Flatten([k \in 1..Len(kvs) |-> StringBytes(kvs[k][1]) \o kvs[k][2]])
        \o <<Byte("e")>>

\* The hash of piece k, and the pieces string of n pieces.
PieceHash(k) == [j \in 1..20 |-> k]

PiecesOf(n) == Flatten([k \in 1..n |-> PieceHash(k)])

\* The four entries every info dict needs, encoded.
InfoBase ==
    {<<<<KEY_LENGTH, IntegerBytes(FALSE, length)>>,
       <<KEY_NAME, StringBytes(name)>>,
       <<KEY_PIECE_LENGTH, IntegerBytes(FALSE, piece_length)>>,
       <<KEY_PIECES, StringBytes(PiecesOf(n))>>>> :
        length \in {Dec(0), Dec(5), DecAdd(TWO_32, Dec(1))},
        name \in {Text(<<"a">>), <<255>>},
        piece_length \in {Dec(4), Dec(16384)},
        n \in 0..MaxPieces}

\* Entries of an info dict that TorrentInfo has no field for.
InfoExtras ==
    LET private == <<Text(<<"p", "r", "i", "v", "a", "t", "e">>), IntegerBytes(FALSE, <<1>>)>>
        source == <<Text(<<"s", "o", "u", "r", "c", "e">>), StringBytes(Text(<<"x">>))>>
    IN {<<private>>, <<source>>, <<private, source>>}

\* The info dicts of the files: the four entries alone, in order and
\* reversed; with further entries; with the name as a list of bytes; with a
\* negative length, pieces of 19 bytes, or no name.
InfoDicts ==
    {DictBytes(base) : base \in InfoBase}
    \cup {DictBytes(Reverse(base)) : base \in InfoBase}
    \cup {DictBytes(base \o extra) : base \in InfoBase, extra \in InfoExtras}
    \cup {DictBytes(<<base[1],
                      <<KEY_NAME, Text(<<"l", "i", "9", "7", "e", "e">>)>>,
                      base[3], base[4]>>) : base \in InfoBase}
    \cup {DictBytes(<<<<KEY_LENGTH, IntegerBytes(TRUE, <<5>>)>>,
                      base[2], base[3], base[4]>>) : base \in InfoBase}
    \cup {DictBytes(<<base[1], base[2], base[3],
                      <<KEY_PIECES, StringBytes(SubSeq(PieceHash(1), 1, 19))>>>>) :
            base \in InfoBase}
    \cup {DictBytes(<<base[1], base[3], base[4]>>) : base \in InfoBase}

\* The contents of the files: announce and info, alone and with a comment
\* before them; and contents that are no dict, or lack the info.
TorrentFiles ==
    LET announce == <<KEY_ANNOUNCE, StringBytes(Text(<<"t">>))>>
        comment == <<Text(<<"a", "b">>), StringBytes(Text(<<"c">>))>>
    IN {DictBytes(<<announce, <<KEY_INFO, info>>>>) : info \in InfoDicts}
       \cup {DictBytes(<<comment, announce, <<KEY_INFO, info>>>>) : info \in InfoDicts}
       \cup {DictBytes(<<announce>>), Text(<<"l", "e">>), Text(<<"d">>)}

InitTorrent ==
    /\ call \in {[fn |-> "Torrent::from_file_path", contents |-> contents,
                  overflow_checks |-> checks] :
                    contents \in TorrentFiles, checks \in BOOLEAN}
    /\ result = << >>
    /\ NoSession
    /\ NoDownloader

\* TorrentFile::from_file_path(path) returns the file's typed record, or an
\* error.
ReadTorrentFile ==
    /\ result = << >>
    /\ result' = <<TorrentFile_from_file_path(call.contents, call.overflow_checks)>>
    /\ UNCHANGED <<call, downloader_vars, peer_vars>>

\* file.torrent_info_hash() returns, and Torrent::from_file_path with it.
TorrentInfoHash ==
    /\ Len(result) = 1
    /\ result[1].tag = "Ok"
    /\ result' = Append(result, torrent_info_hash(result[1].val))
    /\ UNCHANGED <<call, downloader_vars, peer_vars>>

NextTorrent == ReadTorrentFile \/ TorrentInfoHash

SpecTorrent == InitTorrent /\ [][NextTorrent]_vars

----------------------------------------------------------------------------
\* Decoding a tracker response's peers (tracker.rs).

\* slice::chunks(size): chunks of size bytes, the last one possibly shorter.
RECURSIVE chunks(_, _)
chunks(bytes, size) ==
    IF bytes = << >> THEN << >>
    ELSE IF Len(bytes) <= size THEN <<bytes>>
    ELSE <<SubSeq(bytes, 1, size)>> \o chunks(SubSeq(bytes, size + 1, Len(bytes)), size)

u16_from_le_bytes(bytes) == bytes[1] + 256 * bytes[2]

u16_from_be_bytes(bytes) == 256 * bytes[1] + bytes[2]

\* SocketAddrV4::new(Ipv4Addr::from(ip_bytes), port).
SocketAddrV4(ip_bytes, port) == [ip |-> ip_bytes, port |-> port]

\* The closure over one chunk: split_first_chunk::<4>, then first_chunk::<2>
\* of the rest, or bail.
peer_of_chunk(c) ==
    IF Len(c) < 4 THEN Err("peers array entry not of length 6 bytes")
    ELSE IF Len(c) - 4 < 2 THEN Err("peers array entry not of length 6 bytes")
    ELSE Ok(SocketAddrV4(SubSeq(c, 1, 4), u16_from_be_bytes(SubSeq(c, 5, 6))))

\* TryFrom<inner::TrackerResponse> for TrackerResponse, on the response `value`.
TrackerResponse_try_from(response) ==
    LET decoded == [k \in 1..Len(chunks(response.peers, 6)) |->
                        peer_of_chunk(chunks(response.peers, 6)[k])]
    IN IF \E k \in 1..Len(decoded) : decoded[k].tag = "Err"
       THEN Err("peers array entry not of length 6 bytes")
       ELSE Ok([interval |-> response.interval,
                peers |-> [k \in 1..Len(decoded) |-> decoded[k].val]])

\* The peers strings of the responses: 01 02 03 04 1A E1, and every string of
\* up to MaxPeersLen bytes of 1A and E1.
PeersStrings == {<<1, 2, 3, 4, 26, 225>>} \cup SeqsUpTo({26, 225}, MaxPeersLen)

InitTracker ==
    /\ call \in {[fn |-> "TrackerResponse::try_from",
                  value |-> [interval |-> 1800, peers |-> peers]] :
                    peers \in PeersStrings}
    /\ result = << >>
    /\ NoSession
    /\ NoDownloader

\* TrackerResponse::try_from(value) returns.
DecodeTrackerResponse ==
    /\ result = << >>
    /\ result' = <<TrackerResponse_try_from(call.value)>>
    /\ UNCHANGED <<call, downloader_vars, peer_vars>>

SpecTracker == InitTracker /\ [][DecodeTrackerResponse]_vars

----------------------------------------------------------------------------
\* PeerHandShakePacket::into_bytes and ::parse on their own
\* (peer/message.rs).

\* Twenty bytes b.
Twenty(b) == [i \in 1..20 |-> b]

\* 68-byte inputs of parse: any first byte; then the protocol string or the
\* same with its last byte changed; reserved bytes; an info-hash; a peer id.
HandshakeInputs ==
    {<<first>> \o header \o [i \in 1..8 |-> reserved] \o Twenty(0) \o Twenty(255) :
        first \in 0..255,
        header \in {ProtocolString, [ProtocolString EXCEPT ![19] = 76]},
        reserved \in {0, 1}}

InitHandshake ==
    /\ call \in {[fn |-> "PeerHandShakePacket::into_bytes",
                  info_hash |-> Twenty(h), peer_id |-> Twenty(p)] :
                    h \in {0, 170, 255}, p \in {0, 1, 255}}
              \cup {[fn |-> "PeerHandShakePacket::parse", input |-> input] :
                    input \in HandshakeInputs}
    /\ result = << >>
    /\ NoSession
    /\ NoDownloader

\* PeerHandShakePacket::new(info_hash, peer_id).into_bytes() returns.
HandshakeIntoBytes ==
    /\ call.fn = "PeerHandShakePacket::into_bytes"
    /\ result = << >>
    /\ result' = <<Ok(PeerHandShakePacket_into_bytes(call.info_hash, call.peer_id))>>
    /\ UNCHANGED <<call, downloader_vars, peer_vars>>

\* PeerHandShakePacket::parse returns, or panics, on the bytes of the call or
\* on the bytes into_bytes returned.
HandshakeParse ==
    /\ \/ /\ call.fn = "PeerHandShakePacket::parse"
          /\ result = << >>
          /\ result' = <<PeerHandShakePacket_parse(call.input)>>
       \/ /\ call.fn = "PeerHandShakePacket::into_bytes"
          /\ Len(result) = 1
          /\ result' = Append(result, PeerHandShakePacket_parse(result[1].val))
    /\ UNCHANGED <<call, downloader_vars, peer_vars>>

NextHandshake == HandshakeIntoBytes \/ HandshakeParse

SpecHandshake == InitHandshake /\ [][NextHandshake]_vars

----------------------------------------------------------------------------
\* spawn_tracker_poller (lines 59-92) on its own task, next to the main loop.
\* `call` is the poller's state: last_interval (<< >> for None) and the
\* seconds its sleep still has to run; `result` is the log of its polls.

\* The intervals a tracker response can carry, in seconds.
Intervals == 1..MaxInterval

\* Line 64: let mut last_interval = None.
InitPoller ==
    /\ num_pieces \in 1..MaxPieces
    /\ piece_queue \in generate_piece_queue(num_pieces)
    /\ polls = 0
    /\ completed = {}
    /\ tracker_rx = << >>
    /\ active_peers = EmptyMap
    /\ new_active_peers = EmptyMap
    /\ new_peers = << >>
    /\ handles = EmptyMap
    /\ ready = << >>
    /\ pc = "fetch"
    /\ output = {}
    /\ NoSession
    /\ call = [fn |-> "spawn_tracker_poller", last_interval |-> << >>, sleep |-> 0]
    /\ result = << >>

\* Lines 69-70, 81-88: tracker.poll() returns Ok: last_interval is set, the
\* list is published with send_replace and the poller sleeps for the interval.
PollOk(peers, interval) ==
    /\ AtFetchPoint
    /\ polls < MaxPolls
    /\ call.sleep = 0
    /\ polls' = polls + 1
    /\ tracker_rx' = <<peers>>
    /\ call' = [call EXCEPT !.last_interval = <<interval>>, !.sleep = interval]
    /\ result' = Append(result, [ok |-> TRUE, peers |-> peers])
    /\ UNCHANGED <<peer_vars, num_pieces, piece_queue, active_peers, new_active_peers,
                   new_peers, handles, ready, pc, completed, output>>

\* PollErr taking the published list back.
PollErr_Unpublish ==
    /\ AtFetchPoint
    /\ polls < MaxPolls
    /\ call.sleep = 0
    /\ polls' = polls + 1
    /\ tracker_rx' = << >>
    /\ call' = [call EXCEPT !.sleep = IF call.last_interval = << >> THEN 0
                                      ELSE call.last_interval[1]]
    /\ result' = Append(result, [ok |-> FALSE, peers |-> << >>])
    /\ UNCHANGED <<peer_vars, num_pieces, piece_queue, active_peers, new_active_peers,
                   new_peers, handles, ready, pc, completed, output>>

\* Lines 71-79: tracker.poll() returns Err: the error is printed, the poller
\* sleeps for last_interval when there is one, and `continue`s.
PollErr ==
    /\ AtFetchPoint
    /\ polls < MaxPolls
    /\ call.sleep = 0
    /\ polls' = polls + 1
    /\ call' = [call EXCEPT !.sleep = IF call.last_interval = << >> THEN 0
                                      ELSE call.last_interval[1]]
    /\ result' = Append(result, [ok |-> FALSE, peers |-> << >>])
    /\ UNCHANGED <<peer_vars, num_pieces, piece_queue, tracker_rx, active_peers,
                   new_active_peers, new_peers, handles, ready, pc, completed, output>>

\* tokio::time::sleep (lines 76, 88): a second of the poller's sleep passes.
PollerSleep ==
    /\ AtFetchPoint
    /\ call.sleep > 0
    /\ call' = [call EXCEPT !.sleep = @ - 1]
    /\ UNCHANGED <<peer_vars, downloader_vars, result>>

\* The main loop and the poller, against peers with which every session
\* succeeds.
NextPoller ==
    \/ FetchNewPeers
    \/ DispatchSpawn(MaxTasks)
    \/ DispatchQueueEmpty
    \/ DispatchEnd
    \/ DrainStart
    \/ DrainSuccess
    \/ DrainNone
    \/ CheckTimeout
    \/ LoopBreak
    \/ Sleep(0)
    \/ \E t \in DOMAIN handles : TaskFinish(t, "ok")
    \/ \E peers \in PeerLists, interval \in Intervals : PollOk(peers, interval)
    \/ PollErr
    \/ PollerSleep

SpecPoller == InitPoller /\ [][NextPoller]_vars

----------------------------------------------------------------------------
\* The claims.

Pieces == 0..(num_pieces - 1)

RunningTasks == {t \in DOMAIN handles : handles[t].state = "running"}

\* try_join_next is returning the task at the head of `ready` in this step.
Joining == pc = "drain" /\ ready # << >> /\ ready' = Tail(ready)

\* C1: download leaves its main loop only when the piece queue is empty and no
\* peer task is still active (no dispatched piece is still being downloaded).
C1_ExitOnlyWhenIdle ==
    pc = "done" => (piece_queue = << >> /\ RunningTasks = {})

\* C2: with peers that always succeed, when download has terminated all the
\* pieces of the torrent have been downloaded successfully.
C2_AllSucceedCompletes ==
    pc = "done" => completed = Pieces

\* C3: with sessions that may fail or time out, no piece is lost for good:
\* download does not end before every piece has been delivered by a Success.
C3_NoPieceLost ==
    pc = "done" => \A p \in Pieces : p \in completed

\* C4: no piece index is delivered in more than one Success result.
C4_SuccessAtMostOnce ==
    [][(Joining /\ handles[Head(ready)].state = "success")
          => handles[Head(ready)].piece \notin completed]_vars

\* C5: at no point are more than MAX_CONCURRENT_DOWNLOADS peer sessions
\* running (spawned and neither finished nor cancelled).
C5_AtMostMaxRunning ==
    Cardinality(RunningTasks) <= MAX_CONCURRENT_DOWNLOADS

C7_FailureRequeuedAtTail ==
    [][(Joining /\ handles[Head(ready)].state = "error") =>
          /\ handles[Head(ready)].peer \notin DOMAIN active_peers'
          /\ piece_queue' = Append(piece_queue, handles[Head(ready)].piece)
          /\ pc' = "drain"
      ]_vars

\* C8: whatever a peer does, its session ends as a Failure result (never as a
\* panic of the task), and the scheduler loop does not panic.
C8_PeerErrorsAreFailures ==
    /\ pc # "panicked"
    /\ \A t \in DOMAIN handles : handles[t].state # "panicked"

\* C9: the bytes of every piece a drained Success delivered are in the output
\* file at offset index * piece_length.
C9_SuccessIsWritten ==
    \A p \in completed : [index |-> p, offset |-> p * PieceLength] \in output

C11_LateSuccessIsValid ==
    [][(/\ Joining
        /\ handles[Head(ready)].state = "success"
        /\ handles[Head(ready)].aborted) =>
          /\ handles[Head(ready)].piece \in completed'
          /\ handles[Head(ready)].peer \notin DOMAIN active_peers'
          /\ Cardinality(DOMAIN active_peers') = Cardinality(DOMAIN active_peers) - 1
          /\ pc' = "drain"
      ]_vars

\* The session is waiting for a frame, and the frame it reads in this step.
Reading == session \in {"read_bitfield", "read_unchoke", "read_piece_block"}

Reads(frame) == wire' = Append(wire, Rx(frame))

\* The info-hash field of a 68-byte handshake (bytes 28 to 47).
InfoHashField(reply) == SubSeq(reply, 29, 48)

\* The handshake is over and the peer is connected.
Connected ==
    session \in {"read_bitfield", "send_interested", "read_unchoke", "request",
                 "read_piece_block", "success"}

\* C12: handshake yields a connected peer only if the reply parses as a
\* handshake with the local info-hash; for every reply with another info-hash
\* it returns an error, and nothing more is exchanged with that peer.
C12_HandshakeChecksInfoHash ==
    \A i \in DOMAIN wire :
       (wire[i].dir = "rx" /\ Len(wire[i].bytes) = 68) =>
          /\ (Connected \/ Len(wire) > i) =>
                /\ PeerHandShakePacket_parse(wire[i].bytes).tag = "Ok"
                /\ PeerHandShakePacket_parse(wire[i].bytes).val.info_hash = InfoHash
          /\ InfoHashField(wire[i].bytes) # InfoHash =>
                (session = "error" /\ Len(wire) = i)

\* C13: every message the session writes after the handshake is a 4-byte
\* big-endian length followed by that many bytes; a Request is the 17 bytes
\* 00 00 00 0D 06 index begin length (Request(1, 0, 16384): ... 00 00 00 01
\* 00 00 00 00 00 00 40 00).
C13_WritesAreFramed ==
    \A i \in DOMAIN wire :
       (wire[i].dir = "tx" /\ i > 1) =>
          /\ Len(wire[i].bytes) >= 4
          /\ get_u32(wire[i].bytes) = Len(wire[i].bytes) - 4
          /\ IsRequest(wire[i]) \/ wire[i].bytes[5] = 6 =>
                wire[i].bytes = put_u32(13) \o <<6>> \o put_u32(descriptor.index)
                                   \o put_u32(0) \o put_u32(descriptor.length)

\* C14: a frame of length 0 (keep-alive) is ignored: wherever the session
\* waits (for Bitfield, for Unchoke, for a Piece) it stays there, without
\* failing and without panicking.
C14_KeepAliveIgnored ==
    [][(Reading /\ Reads(<< >>)) => session' = session]_vars

Handled(frame) == PeerMessage_parse(frame).tag = "Ok"

\* C17: when the first message after the handshake is not a Bitfield but
\* another message the client handles (Unchoke, say), the session goes on.
C17_BitfieldOptional ==
    [][\A frame \in PeerFrames :
          (/\ session = "read_bitfield"
           /\ Reads(frame)
           /\ Handled(frame)) => session' \notin {"error", "panicked"}]_vars

\* C18: a Choke read while a block is awaited does not fail the session: it
\* is back where it waits for Unchoke.
C18_ChokeReturnsToReady ==
    [][(session = "read_piece_block" /\ Reads(<<0>>)) => session' = "read_unchoke"]_vars

\* C19: a Have read while a block is awaited is discarded: the session keeps
\* waiting for the Piece.
C19_HaveDiscarded ==
    [][(session = "read_piece_block" /\ Reads(<<4>> \o put_u32(0)))
          => session' = "read_piece_block"]_vars

\* C15: for every payload, PeerMessage::parse returns a message or an error
\* (it never panics), and an id outside the handled ones is an error.
C15_ParseIsTotal ==
    result # << >> =>
       /\ result[1].tag \in {"Ok", "Err"}
       /\ (Len(call.input) > 0 /\ call.input[1] \notin {1, 2, 5, 6, 7}) =>
             result[1].tag = "Err"

\* C20: for a piece of length Lp >= 1, generate_piece_block_requests yields
\* ceil(Lp / 16384) requests, the k-th (from 0) with begin = k * 16384 and
\* length = min(16384, Lp - k * 16384); the requests tile [0, Lp) without gap
\* or overlap, and every block but the last has length 16384.
C20_BlockPartition ==
    result.done =>
       LET Lp == call.length
           y == result.yielded
           n == Len(result.yielded)
       IN /\ n * 16384 >= Lp
          /\ (n - 1) * 16384 < Lp
          /\ \A k \in 1..n :
                /\ y[k].index = call.index
                /\ y[k].begin = (k - 1) * 16384
                /\ y[k].length = Min(16384, Lp - (k - 1) * 16384)
                /\ y[k].length >= 1
          /\ y[1].begin = 0
          /\ \A k \in 1..(n - 1) :
                /\ y[k].begin + y[k].length = y[k + 1].begin
                /\ y[k].length = 16384
          /\ y[n].begin + y[n].length = Lp

\* C20, witness: a piece of two blocks, the last one shorter, was generated.
C20_Witness ==
    /\ result.done
    /\ Len(result.yielded) = 2
    /\ result.yielded[2].length < 16384

\* C21: piece length law.  With N = ceil(L / P) pieces, calculate_piece_length
\* returns P for a piece i < N - 1 (that is, (i + 1) * P < L) and
\* ((L - 1) mod P) + 1 for the last piece.
C21_PieceLengthLaw ==
    (call # << >> /\ call.fn = "calculate_piece_length" /\ result # << >>) =>
        LET P == call.piece.piece_length
            L == call.piece.torrent_length
            i == call.piece.piece_index
        IN result[1] =
              Ok(IF DecLess(DecMul(DecAdd(i, Dec(1)), P), L)
                 THEN P
                 ELSE DecAdd(DecMod(DecSub(L, Dec(1)), P), Dec(1)))

\* The bytes inp are being parsed and the parse has ended.
ParseEnded(inp) ==
    /\ call # << >>
    /\ call.fn = "try_from_bytes"
    /\ call.input = inp
    /\ Len(result) >= 1

\* C22: bencode integer grammar.  "i0e" and "i-42e" parse to Integer(0) and
\* Integer(-42); "i-0e" and "i03e" are parse errors.
C22_IntegerGrammar ==
    /\ ParseEnded(Text(<<"i", "0", "e">>))
          => result[1] = Ok(Integer(I64(FALSE, <<0>>)))
    /\ ParseEnded(Text(<<"i", "-", "4", "2", "e">>))
          => result[1] = Ok(Integer(I64(TRUE, <<4, 2>>)))
    /\ ParseEnded(Text(<<"i", "-", "0", "e">>)) => result[1].tag = "Err"
    /\ ParseEnded(Text(<<"i", "0", "3", "e">>)) => result[1].tag = "Err"
    /\ ParseEnded(Text(<<"0", "3", ":", "a", "b", "c">>)) => result[1].tag = "Err"

\* The bytes "i<n>e" or "i-<n>e" are being parsed and the parse has ended.
IntegerParseEnded(sign, n) == ParseEnded(IntegerBytes(sign, n))

\* C23: bencode integers are 64-bit signed.  "i<n>e" parses to Integer(n)
\* when -2^63 <= n <= 2^63 - 1 and is an error for every other n; no parse
\* yields a wrapped value.
C23_IntegerRange ==
    /\ \A n \in {<<0>>, <<4, 2>>, I64_MAX} :
          /\ IntegerParseEnded(FALSE, n) => result[1] = Ok(Integer(I64(FALSE, n)))
    /\ \A n \in {<<4, 2>>, I64_MAX, TWO_63} :
          /\ IntegerParseEnded(TRUE, n) => result[1] = Ok(Integer(I64(TRUE, n)))
    /\ \A n \in {TWO_63, DecAdd(TWO_63, <<1>>), U64_MAX, TWO_64} :
          /\ IntegerParseEnded(FALSE, n) => result[1].tag = "Err"
    /\ \A n \in {DecAdd(TWO_63, <<1>>), U64_MAX, TWO_64} :
          /\ IntegerParseEnded(TRUE, n) => result[1].tag = "Err"

\* C24: codec round-trip on bytes.  For valid bencode b whose dict keys are
\* in strictly ascending byte order, to_byte_string(try_from_bytes(b)) = b.
C24_BytesRoundTrip ==
    (call # << >> /\ call.fn = "try_from_bytes" /\ call.input \in SortedCorpus) =>
        /\ Len(result) >= 1 => result[1].tag = "Ok"
        /\ Len(result) >= 2 => result[2] = Ok(call.input)

\* C25: codec round-trip on values.  For every value v,
\* try_from_bytes(to_byte_string(v)) succeeds and equals v.
C25_ValueRoundTrip ==
    (call # << >> /\ call.fn = "to_byte_string" /\ Len(result) = 2) =>
        /\ result[2].tag = "Ok"
        /\ result[2].val = call.value

\* The bytes to_byte_string has returned, in a sequence of none or one.
Encoded ==
    IF call = << >> THEN << >>
    ELSE IF call.fn = "to_byte_string" /\ Len(result) >= 1 THEN <<result[1].val>>
    ELSE IF call.fn = "try_from_bytes" /\ Len(result) >= 2 THEN <<result[2].val>>
    ELSE << >>

\* The byte string that starts at pos of well-formed bencode b, as written:
\* its bytes and the position after it.
RawString(b, pos) ==
    LET colon == DigitsEnd(b, pos)
        len == DecToInt([k \in 1..(colon - pos) |-> b[pos + k - 1] - 48])
    IN [pos |-> colon + 1 + len, bytes |-> SubSeq(b, colon + 1, colon + len)]

RECURSIVE RawValue(_, _)
RECURSIVE RawList(_, _, _)
RECURSIVE RawDict(_, _, _, _)

\* The value that starts at pos of well-formed bencode b: the position after
\* it, and whether the keys of every dict in it, as written, ascend strictly.
RawValue(b, pos) ==
    IF is_ascii_digit(b[pos]) THEN [pos |-> RawString(b, pos).pos, ok |-> TRUE]
    ELSE IF b[pos] = Byte("i")
    THEN [pos |-> 1 + CHOOSE e \in pos..Len(b) :
                        b[e] = Byte("e") /\ \A j \in pos..(e - 1) : b[j] # Byte("e"),
          ok |-> TRUE]
    ELSE IF b[pos] = Byte("l") THEN RawList(b, pos + 1, TRUE)
    ELSE RawDict(b, pos + 1, << >>, TRUE)

RawList(b, pos, ok) ==
    IF b[pos] = Byte("e") THEN [pos |-> pos + 1, ok |-> ok]
    ELSE LET v == RawValue(b, pos)
         IN RawList(b, v.pos, ok /\ v.ok)

RawDict(b, pos, last, ok) ==
    IF b[pos] = Byte("e") THEN [pos |-> pos + 1, ok |-> ok]
    ELSE LET k == RawString(b, pos)
             v == RawValue(b, k.pos)
         IN RawDict(b, v.pos, <<k.bytes>>,
                    ok /\ v.ok /\ (last = << >> \/ BytesLess(last[1], k.bytes)))

SpamFooB8 ==
    Text(<<"d", "1", ":", "b", "i", "8", "e", "4", ":", "s", "p", "a", "m",
           "3", ":", "f", "o", "o", "e">>)

FooSpamB8 ==
    Text(<<"d", "4", ":", "s", "p", "a", "m", "3", ":", "f", "o", "o",
           "1", ":", "b", "i", "8", "e", "e">>)

\* C26: canonical ordering.  Whatever to_byte_string emits, for a dict
\* collected from entries in any order or parsed from input with its keys out
\* of order, has the keys of every dict, at every nesting level, in strictly
\* ascending byte order; {spam: foo, b: 8} encodes as d1:bi8e4:spam3:fooe.
C26_CanonicalOrdering ==
    /\ Encoded # << >> => /\ RawValue(Encoded[1], 1).ok
                          /\ RawValue(Encoded[1], 1).pos = Len(Encoded[1]) + 1
    /\ (ParseEnded(FooSpamB8) /\ Len(result) >= 2) => result[2] = Ok(SpamFooB8)
    /\ (call # << >> /\ call.fn = "to_byte_string" /\ Len(result) >= 1
        /\ call.value = Dict(BTreeMap_from_iter(
              <<<<Text(<<"s", "p", "a", "m">>), String(Text(<<"f", "o", "o">>))>>,
                <<Text(<<"b">>), Integer(I64(FALSE, <<8>>))>>>>)))
          => result[1] = Ok(SpamFooB8)

\* C26 witness: input whose keys are out of order, spam before b, has been
\* parsed and encoded again.
C26_Witness ==
    /\ ParseEnded(FooSpamB8)
    /\ Len(result) >= 2
    /\ result[2] = Ok(SpamFooB8)

\* Inputs with a byte after the outermost value (i42ee, 4:spamx, lele, de0:,
\* i-9223372036854775808ee), with a body shorter than its length (5:spam),
\* without the closing e (i42, li42e, d1:ai42e, li-9223372036854775808e), and
\* with a negative length (-1:a).
Malformed ==
    {IntegerBytes(FALSE, <<4, 2>>) \o <<Byte("e")>>,
     Text(<<"4", ":", "s", "p", "a", "m", "x">>),
     Text(<<"l", "e", "l", "e">>),
     Text(<<"d", "e", "0", ":">>),
     IntegerBytes(TRUE, TWO_63) \o <<Byte("e")>>,
     Text(<<"5", ":", "s", "p", "a", "m">>),
     Text(<<"i", "4", "2">>),
     Text(<<"l", "i", "4", "2", "e">>),
     Text(<<"d", "1", ":", "a", "i", "4", "2", "e">>),
     Text(<<"l", "i", "-">>) \o AsciiOf(TWO_63) \o <<Byte("e")>>,
     Text(<<"-", "1", ":", "a">>)}

\* C27: try_from_bytes fails with a parse error on an input with bytes after
\* the outermost value, a truncated string body, a missing closing e or a
\* negative length: on every input of Malformed, and on every input of which
\* a proper prefix is a whole value.
C27_ParseErrors ==
    (call # << >> /\ call.fn = "try_from_bytes" /\ Len(result) >= 1) =>
        /\ call.input \in Malformed => result[1].tag = "Err"
        /\ (\E k \in 1..(Len(call.input) - 1) :
                try_from_bytes(SubSeq(call.input, 1, k), FALSE).tag = "Ok")
              => result[1].tag = "Err"

\* The info dict of the file's contents, as try_from_bytes parses it.
ParsedInfo ==
    Field(try_from_bytes(call.contents, call.overflow_checks).val.dict, KEY_INFO)[1][2]

\* C28: info-hash.  For a torrent file that loads, the info_hash is the SHA-1
\* of the bencoding of the whole info dict as parsed from the file.
C28_InfoHashOfWholeDict ==
    (call # << >> /\ call.fn = "Torrent::from_file_path" /\ Len(result) = 2
     /\ result[2].tag = "Ok")
        => result[2].val = hash_sha1(to_byte_string(ParsedInfo))

\* C29: tracker response decoding.  A peers string of 6n bytes decodes to n
\* peers in order, the i-th with the address bytes 6i..6i+3 and the
\* big-endian port of bytes 6i+4..6i+5; 01 02 03 04 1A E1 is 1.2.3.4:6881;
\* a string whose length is no multiple of 6 is an error.
C29_TrackerDecoding ==
    (call # << >> /\ call.fn = "TrackerResponse::try_from" /\ result # << >>) =>
        LET p == call.value.peers
            n == Len(p) \div 6
        IN /\ Len(p) % 6 # 0 => result[1].tag = "Err"
           /\ Len(p) % 6 = 0 =>
                /\ result[1].tag = "Ok"
                /\ Len(result[1].val.peers) = n
                /\ \A i \in 0..(n - 1) :
                      result[1].val.peers[i + 1] =
                          [ip |-> <<p[6 * i + 1], p[6 * i + 2], p[6 * i + 3], p[6 * i + 4]>>,
                           port |-> 256 * p[6 * i + 5] + p[6 * i + 6]]
           /\ p = <<1, 2, 3, 4, 26, 225>> =>
                /\ result[1].tag = "Ok"
                /\ result[1].val.peers = <<[ip |-> <<1, 2, 3, 4>>, port |-> 6881]>>

\* C29 witness: a peers string of two entries has been decoded.
C29_Witness ==
    /\ call # << >>
    /\ call.fn = "TrackerResponse::try_from"
    /\ Len(call.value.peers) = 12
    /\ result # << >>
    /\ result[1].tag = "Ok"
    /\ Len(result[1].val.peers) = 2

\* C30: handshake frame.  into_bytes yields the 68 bytes 0x13, "BitTorrent
\* protocol", eight zero bytes, info_hash, peer_id; parse of them returns the
\* same info_hash and peer_id; parse of a 68-byte input whose first 20 bytes
\* are not 0x13 and the protocol string is an error.
C30_HandshakeFrame ==
    /\ (call # << >> /\ call.fn = "PeerHandShakePacket::into_bytes" /\ Len(result) >= 1) =>
          /\ Len(result[1].val) = 68
          /\ result[1].val = <<19>> \o ProtocolString \o <<0, 0, 0, 0, 0, 0, 0, 0>>
                                \o call.info_hash \o call.peer_id
          /\ Len(result) >= 2 =>
                result[2] = Ok([info_hash |-> call.info_hash, peer_id |-> call.peer_id])
    /\ (call # << >> /\ call.fn = "PeerHandShakePacket::parse" /\ Len(result) >= 1
        /\ SubSeq(call.input, 1, 20) # <<19>> \o ProtocolString) =>
          result[1].tag = "Err"

\* The frame is a Piece message the client parses, and the block request it
\* answers is the outstanding one.
IsPieceFrame(frame) ==
    PeerMessage_parse(frame).tag = "Ok" /\ PeerMessage_parse(frame).val.msg = "Piece"

Outstanding == BlockRequests[Requested]

\* A Piece whose index or begin is not that of the outstanding Request.
Mismatched(frame) ==
    /\ IsPieceFrame(frame)
    /\ \/ PeerMessage_parse(frame).val.index # Outstanding.index
       \/ PeerMessage_parse(frame).val.begin # Outstanding.begin

\* C31: a received Piece whose index or begin differs from the outstanding
\* Request is rejected: download_piece returns an error, nothing of the block
\* is copied into the piece buffer, and no success is reported for the piece.
C31_MismatchedPieceRejected ==
    [][\A frame \in PieceFrames :
          (/\ session = "read_piece_block"
           /\ Reads(frame)
           /\ Mismatched(frame)) => (session' = "error" /\ piece_buffer' = piece_buffer)]_vars

\* C31, witness: a Piece with another begin than requested, carrying a block
\* of the requested length, was read and the session has failed.
C31_Witness ==
    /\ session = "error"
    /\ Len(wire) > 1
    /\ IsRequest(wire[Len(wire) - 1])
    /\ wire[Len(wire)].dir = "rx"
    /\ Mismatched(wire[Len(wire)].bytes)
    /\ PeerMessage_parse(wire[Len(wire)].bytes).val.index = Outstanding.index
    /\ Len(PeerMessage_parse(wire[Len(wire)].bytes).val.block) = Outstanding.length

\* A Piece with the index and begin of the outstanding Request whose block is
\* shorter or longer than the requested length.
WrongLength(frame) ==
    /\ IsPieceFrame(frame)
    /\ PeerMessage_parse(frame).val.index = Outstanding.index
    /\ PeerMessage_parse(frame).val.begin = Outstanding.begin
    /\ Len(PeerMessage_parse(frame).val.block) # Outstanding.length

\* C32: a received Piece whose block length differs from the requested length
\* (with matching index and begin) is rejected with an error, a normal Failure
\* of the session: the task does not panic and the piece buffer is not written.
C32_WrongLengthRejected ==
    [][\A frame \in PieceFrames :
          (/\ session = "read_piece_block"
           /\ Reads(frame)
           /\ WrongLength(frame)) => (session' = "error" /\ piece_buffer' = piece_buffer)]_vars

\* The session has received every block of its piece and the SHA-1 of the
\* assembled buffer is the descriptor's hash.
HashVerified ==
    /\ Requested = Len(BlockRequests)
    /\ wire[Len(wire)].dir = "rx"
    /\ Len(piece_buffer) = descriptor.length
    /\ hash_sha1(piece_buffer) = descriptor.hash

\* C33: a session reports Success only after all blocks of the piece were
\* received and the SHA-1 of the buffer equals the descriptor's hash; a
\* session that ends with a Failure (a hash mismatch is one) has its
\* descriptor back in the queue once the scheduler has drained the result.
C33_HashVerification ==
    [][/\ session' = "success" => HashVerified'
       /\ (session = "request" /\ Requested = Len(BlockRequests)
              /\ hash_sha1(piece_buffer) # descriptor.hash) => session' = "error"
       /\ (Joining /\ handles[Head(ready)].state = "error") =>
             \E i \in DOMAIN piece_queue' : piece_queue'[i] = handles[Head(ready)].piece
      ]_vars

\* The poll made in this step, and the list of the last successful poll.
Polled == polls' = polls + 1

LastPoll == result'[Len(result')]

Published(log) ==
    LET oks == SelectSeq(log, LAMBDA e : e.ok)
    IN IF oks = << >> THEN << >> ELSE <<oks[Len(oks)].peers>>

\* C34: a failed poll leaves the published peer list as it is (and never
\* takes it back to none), and the next poll comes after the last known
\* interval, or at once when there is none; a successful poll replaces the
\* published list; the scheduler acts on the list published last.
C34_TrackerPolling ==
    [][/\ (Polled /\ ~LastPoll.ok) =>
             /\ tracker_rx' = tracker_rx
             /\ call'.last_interval = call.last_interval
             /\ call'.sleep = IF call.last_interval = << >> THEN 0
                              ELSE call.last_interval[1]
       /\ (Polled /\ LastPoll.ok) => tracker_rx' = <<LastPoll.peers>>
       /\ Polled => call.sleep = 0
       /\ tracker_rx # << >> => tracker_rx' # << >>
       /\ (pc = "fetch" /\ pc' = "dispatch") =>
             /\ Published(result) # << >>
             /\ new_peers' = SelectSeq(Published(result)[1],
                                       LAMBDA p : p \notin DOMAIN active_peers)
      ]_vars

\* C34, witness: a poll failed after a list was published; the poller sleeps
\* for the last interval and the scheduler has fetched the published list.
C34_Witness ==
    /\ Len(result) = 2
    /\ result[1].ok
    /\ ~result[2].ok
    /\ call.sleep = call.last_interval[1]
    /\ tracker_rx = <<result[1].peers>>
    /\ pc = "dispatch"
    /\ new_peers # << >>

\* Where a piece is: how often it is queued, the sessions in the JoinSet that
\* own it (every task that was not cancelled by the stall policy and whose
\* result was not yet drained), and whether it was completed.
Queued(piece) == Cardinality({i \in DOMAIN piece_queue : piece_queue[i] = piece})

Owners(piece) == {t \in DOMAIN handles : handles[t].piece = piece /\ ~handles[t].aborted}

Completed(piece) == IF piece \in completed THEN 1 ELSE 0

\* C35: the queue starts with every piece index exactly once, and in every
\* reachable state each piece index is in exactly one place: queued once,
\* assigned to exactly one live session, or completed.
C35_PieceConservation ==
    \A piece \in Pieces :
       Queued(piece) + Cardinality(Owners(piece)) + Completed(piece) = 1

\* C36: after the stall policy has cancelled a session, that peer's entry
\* leaves the active set: once the cancelled task has been joined, the entry
\* that held it is gone (it is not timed out again, it does not count toward
\* the cap, and the address can be dispatched again).
C36_CancelledEntryLeaves ==
    [][(Joining /\ handles[Head(ready)].state = "cancelled") =>
          \A a \in DOMAIN active_peers :
             active_peers[a].task = Head(ready) => a \notin DOMAIN active_peers'
      ]_vars

\* C37: the assertions of the draining loop never fail: whenever a Success
\* or an Error result is drained, the address of its peer is in the active
\* set (for every tracker list, also one that repeats an address).
C37_DrainAssertionsHold ==
    [][(Joining /\ handles[Head(ready)].state \in {"success", "error"}) =>
          /\ handles[Head(ready)].peer \in DOMAIN active_peers
          /\ pc' # "panicked"
      ]_vars

\* The sessions of an address: the tasks spawned for it that have not ended.
SessionsOf(a) == {t \in RunningTasks : handles[t].peer = a}

\* C38: at most one session runs per peer address, and every spawned task
\* has its own entry in the active set (or, within the dispatch loop, in
\* new_active_peers): no two tasks are spawned for the same address.
C38_OneSessionPerAddress ==
    /\ \A a \in Addrs : Cardinality(SessionsOf(a)) <= 1
    /\ \A t \in RunningTasks :
          \/ /\ handles[t].peer \in DOMAIN active_peers
             /\ active_peers[handles[t].peer].task = t
          \/ /\ handles[t].peer \in DOMAIN new_active_peers
             /\ new_active_peers[handles[t].peer].task = t

\* C39: the draining step of an iteration handles every result that is ready:
\* it ends only when no task is ready, a Success or Error is never left behind
\* because the task joined before it was cancelled or panicked, and a task
\* that panicked has its peer removed and its descriptor re-queued.
C39_DrainHandlesAllReady ==
    [][/\ (pc = "drain" /\ pc' = "timeout") => ready' = << >>
       /\ (Joining /\ handles[Head(ready)].state = "panicked") =>
             /\ handles[Head(ready)].peer \notin DOMAIN active_peers'
             /\ piece_queue' = Append(piece_queue, handles[Head(ready)].piece)
      ]_vars

\* C40: for every torrent_length < 2^64, piece_length in [1, 2^32) and
\* piece_index < ceil(torrent_length / piece_length), calculate_piece_length
\* returns a length: it does not panic, and piece_index * piece_length is
\* computed without wrapping around 2^32.
C40_NoOverflow ==
    (call # << >> /\ call.fn = "calculate_piece_length" /\ result # << >>) =>
        LET product == DecMul(call.piece.piece_index, call.piece.piece_length)
        IN /\ result[1].tag = "Ok"
           /\ DecMod(product, TWO_32) = product

====
